---- MODULE Spec2Model ----
(***************************************************************************)
(* Model of the multi-format balance-sheet extraction engine               *)
(* (balance_sheet_rag/src/parsers): one parse() call of one back-end, as   *)
(* the sequence of steps its code takes.  Texts are abstracted to their    *)
(* lengths (raw, stripped, cleaned); labels of the CSV structure analysis  *)
(* are sequences of characters.                                            *)
(***************************************************************************)
EXTENDS Integers, Sequences, FiniteSets, TLC

VARIABLES
    backend,       \* which back-end's parse() is running
    pc,            \* position inside parse()
    outcome,       \* "running", "result" (a ParsingResult was returned) or "escaped"
    result,        \* the ParsingResult under construction / returned
    failures,      \* history: internal failures raised so far, with where they were caught
    text_content,  \* PDF: the current text_content, [len, slen, src]
    temp_files,    \* PDF: the temporary page images present on disk
    yielded,       \* PDF: what each text-extraction method called so far returned
    chunk_input,   \* length of the text handed to _split_into_chunks
    start,         \* _split_into_chunks: window start of the running loop
    text_chunks,   \* _split_into_chunks: windows appended so far
    windows,       \* history: every window text[start:end] the call has taken
    encoding,      \* CSV: the encoding _detect_encoding returned
    csv_file,      \* CSV: what pd.read_csv does on the file, per effective parameters
    attempts,      \* CSV: the read attempts issued so far (cleaned parameters)
    df,            \* CSV: the table _read_csv_with_fallbacks returned
    all_sheets,    \* Excel: the sheets pd.read_excel returned, in order
    sheet_no,      \* Excel: the sheet the loop of parse() is at
    all_chunks,    \* Excel: chunks merged so far
    all_tables,    \* Excel: number of tables merged so far
    parsed_data,   \* XML: what _parse_xbrl / _parse_regular_xml returned
    xml_root,      \* XML: the tree ET.parse returned
    df_cleaned,    \* CSV table analysis: the cleaned table, [columns, rows]
    table_pc,      \* CSV table analysis: position after _clean_dataframe
    table_data,    \* CSV table analysis: what _extract_table_from_dataframe returned
    balance_sheet_items,  \* CSV table analysis: metadata['balance_sheet_items']
    structure_analysis,   \* CSV table analysis: metadata['structure_analysis']
    fn_call,       \* a call of one of the text functions: [fn, arg]
    fn_return,     \* what that call returned: [done, value]
    instance,      \* the attributes of the parser instance the calls run on
    threads        \* the calls running on that instance, each with its locals

vars == <<backend, pc, outcome, result, failures, text_content, yielded,
          temp_files,
          chunk_input, start, text_chunks, windows, encoding, csv_file, attempts, df,
          all_sheets, sheet_no, all_chunks, all_tables, parsed_data, xml_root,
          df_cleaned, table_pc, table_data, balance_sheet_items,
          structure_analysis, fn_call, fn_return, instance, threads>>

pdfVars == <<text_content, yielded, temp_files>>
splitVars == <<chunk_input, start, text_chunks, windows>>
csvVars == <<encoding, csv_file, attempts, df>>
excelVars == <<all_sheets, sheet_no, all_chunks, all_tables>>
xmlVars == <<parsed_data, xml_root>>
tableVars == <<df_cleaned, table_pc, table_data, balance_sheet_items,
               structure_analysis>>
callVars == <<fn_call, fn_return>>
sharedVars == <<instance, threads>>
parseVars == <<backend, pc, outcome, result, failures, pdfVars, splitVars,
               csvVars, excelVars, xmlVars>>

----------------------------------------------------------------------------
Min(a, b) == IF a < b THEN a ELSE b

----------------------------------------------------------------------------
(* Strings as sequences of characters, and the part of the regular         *)
(* expression syntax the pattern tables use.                               *)

UpperCase ==
    <<"A", "B", "C", "D", "E", "F", "G", "H", "I", "J", "K", "L", "M",
      "N", "O", "P", "Q", "R", "S", "T", "U", "V", "W", "X", "Y", "Z">>

LowerCase ==
    <<"a", "b", "c", "d", "e", "f", "g", "h", "i", "j", "k", "l", "m",
      "n", "o", "p", "q", "r", "s", "t", "u", "v", "w", "x", "y", "z">>

Digits == <<"0", "1", "2", "3", "4", "5", "6", "7", "8", "9">>

IsDigit(c) == \E i \in DOMAIN Digits : Digits[i] = c

IsSpace(c) == c \in {" ", "\t", "\n", "\r"}

\* str.lower()
LowerChar(c) ==
    IF \E i \in DOMAIN UpperCase : UpperCase[i] = c
    THEN LowerCase[CHOOSE i \in DOMAIN UpperCase : UpperCase[i] = c]
    ELSE c

Lower(s) == [i \in DOMAIN s |-> LowerChar(s[i])]

\* str.strip()
RECURSIVE LStrip(_)
LStrip(s) == IF s # <<>> /\ IsSpace(Head(s)) THEN LStrip(Tail(s)) ELSE s

RECURSIVE RStrip(_)
RStrip(s) ==
    IF s # <<>> /\ IsSpace(s[Len(s)]) THEN RStrip(SubSeq(s, 1, Len(s) - 1)) ELSE s

Strip(s) == RStrip(LStrip(s))

\* "term in s"
Contains(s, term) ==
    \E j \in 1 .. (Len(s) - Len(term) + 1) : SubSeq(s, j, j + Len(term) - 1) = term

\* "any(term in s for term in terms)"
ContainsAny(s, terms) == \E k \in DOMAIN terms : Contains(s, terms[k])

\* separator.join(cells)
RECURSIVE Join(_, _)
Join(cells, sep) ==
    IF cells = <<>> THEN <<>>
    ELSE IF Len(cells) = 1 THEN cells[1]
    ELSE cells[1] \o sep \o Join(Tail(cells), sep)

\* tokens of a pattern: a literal character, "." , "x?", "\s+" and ".*"
Lit(s) == [i \in DOMAIN s |-> [t |-> "lit", c |-> s[i]]]
AnyChar == <<[t |-> "any", c |-> ""]>>
Opt(c) == <<[t |-> "opt", c |-> c]>>
Spaces == <<[t |-> "spaces", c |-> ""]>>
AnyRun == <<[t |-> "anyrun", c |-> ""]>>

\* the tokens of p from the k-th on match s from position j on
RECURSIVE MatchAt(_, _, _, _)
MatchAt(p, k, s, j) ==
    IF k > Len(p) THEN TRUE
    ELSE LET tok == p[k]
         IN  CASE tok.t = "lit" ->
                    j <= Len(s) /\ s[j] = tok.c /\ MatchAt(p, k + 1, s, j + 1)
               [] tok.t = "any" ->
                    j <= Len(s) /\ s[j] # "\n" /\ MatchAt(p, k + 1, s, j + 1)
               [] tok.t = "opt" ->
                    \/ j <= Len(s) /\ s[j] = tok.c /\ MatchAt(p, k + 1, s, j + 1)
                    \/ MatchAt(p, k + 1, s, j)
               [] tok.t = "spaces" ->
                    \E e \in j .. Len(s) :
                        /\ \A x \in j .. e : IsSpace(s[x])
                        /\ MatchAt(p, k + 1, s, e + 1)
               [] OTHER ->
                    \E e \in (j - 1) .. Len(s) :
                        /\ \A x \in j .. e : s[x] # "\n"
                        /\ MatchAt(p, k + 1, s, e + 1)

\* re.search(pattern, s)
Search(p, s) == \E j \in 1 .. (Len(s) + 1) : MatchAt(p, 1, s, j)

----------------------------------------------------------------------------
(* The pattern tables of BaseParser._setup_patterns, in dict order *)

\* lines 46-73
asset_patterns ==
    <<[category |-> "cash_and_equivalents",
        patterns |-> <<
            Lit(<<"c", "a", "s", "h">>) \o Spaces \o Lit(<<"a", "n", "d">>) \o Spaces \o Lit(<<"c", "a", "s", "h">>) \o Spaces \o Lit(<<"e", "q", "u", "i", "v", "a", "l", "e", "n", "t", "s">>),
            Lit(<<"c", "a", "s", "h">>) \o Spaces \o Lit(<<"e", "q", "u", "i", "v", "a", "l", "e", "n", "t", "s">>),
            Lit(<<"c", "a", "s", "h">>),
            Lit(<<"s", "h", "o", "r", "t">>) \o AnyChar \o Lit(<<"t", "e", "r", "m">>) \o Spaces \o Lit(<<"i", "n", "v", "e", "s", "t", "m", "e", "n", "t", "s">>),
            Lit(<<"m", "a", "r", "k", "e", "t", "a", "b", "l", "e">>) \o Spaces \o Lit(<<"s", "e", "c", "u", "r", "i", "t", "i", "e", "s">>) >>],
       [category |-> "accounts_receivable",
        patterns |-> <<
            Lit(<<"a", "c", "c", "o", "u", "n", "t", "s">>) \o Spaces \o Lit(<<"r", "e", "c", "e", "i", "v", "a", "b", "l", "e">>),
            Lit(<<"r", "e", "c", "e", "i", "v", "a", "b", "l", "e", "s">>),
            Lit(<<"t", "r", "a", "d", "e">>) \o Spaces \o Lit(<<"r", "e", "c", "e", "i", "v", "a", "b", "l", "e", "s">>),
            Lit(<<"n", "e", "t">>) \o Spaces \o Lit(<<"r", "e", "c", "e", "i", "v", "a", "b", "l", "e", "s">>) >>],
       [category |-> "inventory",
        patterns |-> <<
            Lit(<<"i", "n", "v", "e", "n", "t", "o", "r", "y">>),
            Lit(<<"i", "n", "v", "e", "n", "t", "o", "r", "i", "e", "s">>),
            Lit(<<"r", "a", "w">>) \o Spaces \o Lit(<<"m", "a", "t", "e", "r", "i", "a", "l", "s">>),
            Lit(<<"w", "o", "r", "k">>) \o Spaces \o Lit(<<"i", "n">>) \o Spaces \o Lit(<<"p", "r", "o", "c", "e", "s", "s">>),
            Lit(<<"f", "i", "n", "i", "s", "h", "e", "d">>) \o Spaces \o Lit(<<"g", "o", "o", "d", "s">>) >>],
       [category |-> "property_plant_equipment",
        patterns |-> <<
            Lit(<<"p", "r", "o", "p", "e", "r", "t", "y">>) \o Opt(",") \o Spaces \o Lit(<<"p", "l", "a", "n", "t">>) \o Spaces \o Lit(<<"a", "n", "d">>) \o Spaces \o Lit(<<"e", "q", "u", "i", "p", "m", "e", "n", "t">>),
            Lit(<<"p", "p", "e">>),
            Lit(<<"f", "i", "x", "e", "d">>) \o Spaces \o Lit(<<"a", "s", "s", "e", "t", "s">>),
            Lit(<<"p", "l", "a", "n", "t">>) \o Spaces \o Lit(<<"a", "n", "d">>) \o Spaces \o Lit(<<"e", "q", "u", "i", "p", "m", "e", "n", "t">>) >>] >>

\* lines 75-91
liability_patterns ==
    <<[category |-> "accounts_payable",
        patterns |-> <<
            Lit(<<"a", "c", "c", "o", "u", "n", "t", "s">>) \o Spaces \o Lit(<<"p", "a", "y", "a", "b", "l", "e">>),
            Lit(<<"t", "r", "a", "d", "e">>) \o Spaces \o Lit(<<"p", "a", "y", "a", "b", "l", "e", "s">>),
            Lit(<<"p", "a", "y", "a", "b", "l", "e", "s">>) >>],
       [category |-> "short_term_debt",
        patterns |-> <<
            Lit(<<"s", "h", "o", "r", "t">>) \o AnyChar \o Lit(<<"t", "e", "r", "m">>) \o Spaces \o Lit(<<"d", "e", "b", "t">>),
            Lit(<<"c", "u", "r", "r", "e", "n", "t">>) \o Spaces \o Lit(<<"p", "o", "r", "t", "i", "o", "n">>) \o AnyRun \o Lit(<<"d", "e", "b", "t">>),
            Lit(<<"n", "o", "t", "e", "s">>) \o Spaces \o Lit(<<"p", "a", "y", "a", "b", "l", "e">>) >>],
       [category |-> "long_term_debt",
        patterns |-> <<
            Lit(<<"l", "o", "n", "g">>) \o AnyChar \o Lit(<<"t", "e", "r", "m">>) \o Spaces \o Lit(<<"d", "e", "b", "t">>),
            Lit(<<"d", "e", "b", "t">>) \o AnyRun \o Lit(<<"l", "o", "n", "g">>) \o AnyChar \o Lit(<<"t", "e", "r", "m">>),
            Lit(<<"b", "o", "n", "d", "s">>) \o Spaces \o Lit(<<"p", "a", "y", "a", "b", "l", "e">>) >>] >>

\* lines 93-105
equity_patterns ==
    <<[category |-> "share_capital",
        patterns |-> <<
            Lit(<<"c", "o", "m", "m", "o", "n">>) \o Spaces \o Lit(<<"s", "t", "o", "c", "k">>),
            Lit(<<"s", "h", "a", "r", "e">>) \o Spaces \o Lit(<<"c", "a", "p", "i", "t", "a", "l">>),
            Lit(<<"c", "a", "p", "i", "t", "a", "l">>) \o Spaces \o Lit(<<"s", "t", "o", "c", "k">>),
            Lit(<<"o", "r", "d", "i", "n", "a", "r", "y">>) \o Spaces \o Lit(<<"s", "h", "a", "r", "e", "s">>) >>],
       [category |-> "retained_earnings",
        patterns |-> <<
            Lit(<<"r", "e", "t", "a", "i", "n", "e", "d">>) \o Spaces \o Lit(<<"e", "a", "r", "n", "i", "n", "g", "s">>),
            Lit(<<"a", "c", "c", "u", "m", "u", "l", "a", "t", "e", "d">>) \o Spaces \o Lit(<<"e", "a", "r", "n", "i", "n", "g", "s">>),
            Lit(<<"e", "a", "r", "n", "i", "n", "g", "s">>) \o Spaces \o Lit(<<"r", "e", "t", "a", "i", "n", "e", "d">>) >>] >>

\* the first category of the table one of whose patterns is found in s,
\* or "" when there is none
FirstCategory(patterns, s) ==
    LET hits == {i \in DOMAIN patterns :
                    \E k \in DOMAIN patterns[i].patterns :
                        Search(patterns[i].patterns[k], s)}
    IN  IF hits = {} THEN ""
        ELSE patterns[CHOOSE i \in hits : \A j \in hits : i <= j].category

----------------------------------------------------------------------------
(* CSVParser: line-item tests *)

\* csv_parser.py lines 356-361
balance_sheet_terms ==
    <<
      <<"c", "a", "s", "h">>,
      <<"r", "e", "c", "e", "i", "v", "a", "b", "l", "e">>,
      <<"i", "n", "v", "e", "n", "t", "o", "r", "y">>,
      <<"a", "s", "s", "e", "t">>,
      <<"p", "r", "o", "p", "e", "r", "t", "y">>,
      <<"e", "q", "u", "i", "p", "m", "e", "n", "t">>,
      <<"i", "n", "v", "e", "s", "t", "m", "e", "n", "t">>,
      <<"g", "o", "o", "d", "w", "i", "l", "l">>,
      <<"i", "n", "t", "a", "n", "g", "i", "b", "l", "e">>,
      <<"p", "a", "y", "a", "b", "l", "e">>, <<"d", "e", "b", "t">>,
      <<"l", "i", "a", "b", "i", "l", "i", "t", "y">>,
      <<"l", "o", "a", "n">>,
      <<"o", "b", "l", "i", "g", "a", "t", "i", "o", "n">>,
      <<"a", "c", "c", "r", "u", "e", "d">>,
      <<"e", "q", "u", "i", "t", "y">>,
      <<"c", "a", "p", "i", "t", "a", "l">>,
      <<"e", "a", "r", "n", "i", "n", "g", "s">>,
      <<"r", "e", "t", "a", "i", "n", "e", "d">>,
      <<"s", "t", "o", "c", "k">>, <<"s", "h", "a", "r", "e">> >>

\* CSVParser._is_balance_sheet_line_item
IsBalanceSheetLineItem(item_name) ==
    ContainsAny(Lower(item_name), balance_sheet_terms)

\* csv_parser.py line 386
general_asset_terms ==
    <<
      <<"a", "s", "s", "e", "t">>, <<"c", "a", "s", "h">>,
      <<"r", "e", "c", "e", "i", "v", "a", "b", "l", "e">>,
      <<"i", "n", "v", "e", "n", "t", "o", "r", "y">>,
      <<"p", "r", "o", "p", "e", "r", "t", "y">>,
      <<"e", "q", "u", "i", "p", "m", "e", "n", "t">>,
      <<"i", "n", "v", "e", "s", "t", "m", "e", "n", "t">> >>

\* csv_parser.py line 388
general_liability_terms ==
    <<
      <<"l", "i", "a", "b", "i", "l", "i", "t", "y">>,
      <<"p", "a", "y", "a", "b", "l", "e">>, <<"d", "e", "b", "t">>,
      <<"l", "o", "a", "n">>,
      <<"o", "b", "l", "i", "g", "a", "t", "i", "o", "n">>,
      <<"a", "c", "c", "r", "u", "e", "d">> >>

\* csv_parser.py line 390
general_equity_terms ==
    <<
      <<"e", "q", "u", "i", "t", "y">>,
      <<"c", "a", "p", "i", "t", "a", "l">>,
      <<"e", "a", "r", "n", "i", "n", "g", "s">>,
      <<"r", "e", "t", "a", "i", "n", "e", "d">>, <<"s", "t", "o", "c", "k">> >>

\* the same with the liability lists tested before the asset lists
CategorizeBalanceSheetItem_LiabilityFirst(item_name) ==
    LET item_lower == Lower(item_name)
        asset == FirstCategory(asset_patterns, item_lower)
        liability == FirstCategory(liability_patterns, item_lower)
        equity == FirstCategory(equity_patterns, item_lower)
    IN  IF liability # "" THEN "liability_" \o liability
        ELSE IF asset # "" THEN "asset_" \o asset
        ELSE IF equity # "" THEN "equity_" \o equity
        ELSE IF ContainsAny(item_lower, general_asset_terms) THEN "asset_other"
        ELSE IF ContainsAny(item_lower, general_liability_terms) THEN "liability_other"
        ELSE IF ContainsAny(item_lower, general_equity_terms) THEN "equity_other"
        ELSE "unknown"

\* CSVParser._categorize_balance_sheet_item
CategorizeBalanceSheetItem(item_name) ==
    LET item_lower == Lower(item_name)
        asset == FirstCategory(asset_patterns, item_lower)
        liability == FirstCategory(liability_patterns, item_lower)
        equity == FirstCategory(equity_patterns, item_lower)
    IN  IF asset # "" THEN "asset_" \o asset
        ELSE IF liability # "" THEN "liability_" \o liability
        ELSE IF equity # "" THEN "equity_" \o equity
        ELSE IF ContainsAny(item_lower, general_asset_terms) THEN "asset_other"
        ELSE IF ContainsAny(item_lower, general_liability_terms) THEN "liability_other"
        ELSE IF ContainsAny(item_lower, general_equity_terms) THEN "equity_other"
        ELSE "unknown"

\* excel_parser.py line 369
excel_general_asset_terms ==
    << <<"a", "s", "s", "e", "t">>,
       <<"c", "a", "s", "h">>,
       <<"r", "e", "c", "e", "i", "v", "a", "b", "l", "e">>,
       <<"i", "n", "v", "e", "n", "t", "o", "r", "y">>,
       <<"p", "r", "o", "p", "e", "r", "t", "y">>,
       <<"e", "q", "u", "i", "p", "m", "e", "n", "t">> >>

\* excel_parser.py line 371
excel_general_liability_terms ==
    << <<"l", "i", "a", "b", "i", "l", "i", "t", "y">>,
       <<"p", "a", "y", "a", "b", "l", "e">>,
       <<"d", "e", "b", "t">>,
       <<"l", "o", "a", "n">>,
       <<"o", "b", "l", "i", "g", "a", "t", "i", "o", "n">> >>

\* pdf_parser.py line 307
pdf_general_asset_terms ==
    << <<"a", "s", "s", "e", "t">>,
       <<"c", "a", "s", "h">>,
       <<"r", "e", "c", "e", "i", "v", "a", "b", "l", "e">>,
       <<"i", "n", "v", "e", "n", "t", "o", "r", "y">>,
       <<"p", "r", "o", "p", "e", "r", "t", "y">>,
       <<"e", "q", "u", "i", "p", "m", "e", "n", "t">> >>

\* pdf_parser.py line 309
pdf_general_liability_terms ==
    << <<"l", "i", "a", "b", "i", "l", "i", "t", "y">>,
       <<"p", "a", "y", "a", "b", "l", "e">>,
       <<"d", "e", "b", "t">>,
       <<"l", "o", "a", "n">>,
       <<"o", "b", "l", "i", "g", "a", "t", "i", "o", "n">> >>

\* the classifier body the three back-ends repeat: the specific patterns of
\* self, then the back-end's own keyword lists (the equity list is the same
\* in the three)
Classify(item_name, asset_terms, liability_terms) ==
    LET item_lower == Lower(item_name)
        asset == FirstCategory(asset_patterns, item_lower)
        liability == FirstCategory(liability_patterns, item_lower)
        equity == FirstCategory(equity_patterns, item_lower)
    IN  IF asset # "" THEN "asset_" \o asset
        ELSE IF liability # "" THEN "liability_" \o liability
        ELSE IF equity # "" THEN "equity_" \o equity
        ELSE IF ContainsAny(item_lower, asset_terms) THEN "asset_other"
        ELSE IF ContainsAny(item_lower, liability_terms) THEN "liability_other"
        ELSE IF ContainsAny(item_lower, general_equity_terms) THEN "equity_other"
        ELSE "unknown"

\* ExcelParser._categorize_balance_sheet_item (lines 348-376)
ExcelCategorizeBalanceSheetItem(item_name) ==
    Classify(item_name, excel_general_asset_terms, excel_general_liability_terms)

\* PDFParser._categorize_line_item (lines 286-314)
PdfCategorizeLineItem(item_name) ==
    Classify(item_name, pdf_general_asset_terms, pdf_general_liability_terms)

----------------------------------------------------------------------------
(* BaseParser.extract_financial_figures.  An amount is kept in hundredths. *)

\* the same table with the generic pattern tried first
currency_patterns_GenericFirst ==
    << [symbol |-> "", currency |-> "USD"],
       [symbol |-> "$", currency |-> "USD"],
       [symbol |-> "€", currency |-> "EUR"],
       [symbol |-> "£", currency |-> "GBP"] >>

\* the currency patterns in dict order (lines 38-43): the symbol that has to
\* precede the numeral ("" for the generic pattern) and the currency reported
currency_patterns ==
    << [symbol |-> "$", currency |-> "USD"],
       [symbol |-> "€", currency |-> "EUR"],
       [symbol |-> "£", currency |-> "GBP"],
       [symbol |-> "", currency |-> "USD"] >>

\* the scale patterns in dict order (lines 108-112): "(?:in\s+)?WORDs?" with
\* IGNORECASE, whose search succeeds exactly when WORD occurs in the text in
\* any case, the prefix and the plural being optional
scale_patterns ==
    << [scale |-> "thousands", word |-> <<"t", "h", "o", "u", "s", "a", "n", "d">>],
       [scale |-> "millions", word |-> <<"m", "i", "l", "l", "i", "o", "n">>],
       [scale |-> "billions", word |-> <<"b", "i", "l", "l", "i", "o", "n">>] >>

ScalePatternSearch(k, text) == Contains(Lower(text), scale_patterns[k].word)

\* detect_scale (lines 217-222): the first pattern that is found, else 'units'
detect_scale(text) ==
    IF \E k \in DOMAIN scale_patterns : ScalePatternSearch(k, text)
    THEN LET first == CHOOSE k \in DOMAIN scale_patterns :
                          /\ ScalePatternSearch(k, text)
                          /\ \A j \in 1 .. (k - 1) : ~ScalePatternSearch(j, text)
         IN  scale_patterns[first].scale
    ELSE "units"

\* what a document's text says about the scale of its figures
ScaleTexts ==
    { <<"(", "i", "n", " ", "m", "i", "l", "l", "i", "o", "n", "s", ")">>,
      <<"I", "n", " ", "T", "h", "o", "u", "s", "a", "n", "d", "s">>,
      <<"U", "S", "D">> }

\* detect_scale on each of these texts
ScaleOfText == [text \in ScaleTexts |-> detect_scale(text)]

\* the 'scale' of the financial_data of n tables that never read the text
\* (pdf_parser.py line 243, excel_parser.py line 248, xml_parser.py line 345)
UnitsScales(n) == [i \in 1 .. n |-> "units"]

IsNumeralChar(c) == IsDigit(c) \/ c = ","

\* the last position of the run of characters satisfying the test that
\* starts at k (k - 1 when the run is empty)
RECURSIVE SpacesEnd(_, _)
SpacesEnd(s, k) ==
    IF k <= Len(s) /\ IsSpace(s[k]) THEN SpacesEnd(s, k + 1) ELSE k - 1

RECURSIVE NumeralEnd(_, _)
NumeralEnd(s, k) ==
    IF k <= Len(s) /\ IsNumeralChar(s[k]) THEN NumeralEnd(s, k + 1) ELSE k - 1

\* one try of  symbol \s* ([0-9,]+(?:\.[0-9]{2})?)  at position i
MatchFigureAt(symbol, s, i) ==
    LET k == IF symbol = "" THEN i ELSE SpacesEnd(s, i + 1) + 1
        j == NumeralEnd(s, k)
        to == IF /\ j + 3 <= Len(s)
                 /\ s[j + 1] = "."
                 /\ IsDigit(s[j + 2])
                 /\ IsDigit(s[j + 3])
              THEN j + 3 ELSE j
    IN  [ok |-> (symbol = "" \/ s[i] = symbol) /\ j >= k, from |-> k, to |-> to]

\* pattern.findall(text): the captured groups of the non-overlapping matches
RECURSIVE FindAll(_, _, _)
FindAll(symbol, s, i) ==
    IF i > Len(s) THEN <<>>
    ELSE LET m == MatchFigureAt(symbol, s, i)
         IN  IF m.ok
             THEN <<SubSeq(s, m.from, m.to)>> \o FindAll(symbol, s, m.to + 1)
             ELSE FindAll(symbol, s, i + 1)

\* match.replace(',', '')
RemoveCommas(s) == SelectSeq(s, LAMBDA c : c # ",")

DigitValue(c) == (CHOOSE i \in DOMAIN Digits : Digits[i] = c) - 1

RECURSIVE DigitsValue(_)
DigitsValue(s) ==
    IF s = <<>> THEN 0
    ELSE 10 * DigitsValue(SubSeq(s, 1, Len(s) - 1)) + DigitValue(s[Len(s)])

\* Decimal(clean_number) is defined unless nothing but commas was matched
ParsesAsDecimal(clean) == clean # <<>>

\* Decimal(clean_number), in hundredths
DecimalHundredths(clean) ==
    IF Len(clean) >= 3 /\ clean[Len(clean) - 2] = "."
    THEN 100 * DigitsValue(SubSeq(clean, 1, Len(clean) - 3))
         + DigitsValue(SubSeq(clean, Len(clean) - 1, Len(clean)))
    ELSE 100 * DigitsValue(clean)

\* lines 138-151, for the matches of one pattern
RECURSIVE FiguresOf(_, _)
FiguresOf(matches, currency) ==
    IF matches = <<>> THEN <<>>
    ELSE LET clean_number == RemoveCommas(Head(matches))
         IN  (IF ParsesAsDecimal(clean_number)
              THEN << [amount |-> DecimalHundredths(clean_number),
                       currency |-> currency,
                       raw_text |-> Head(matches)] >>
              ELSE <<>>)
             \o FiguresOf(Tail(matches), currency)

\* lines 131-153
RECURSIVE FiguresFrom(_, _)
FiguresFrom(k, text) ==
    IF k > Len(currency_patterns) THEN <<>>
    ELSE FiguresOf(FindAll(currency_patterns[k].symbol, text, 1),
                   currency_patterns[k].currency)
         \o FiguresFrom(k + 1, text)

extract_financial_figures(text) == FiguresFrom(1, text)

----------------------------------------------------------------------------
(* CSVParser on a cleaned table: [columns, rows], every cell a string *)

\* df.empty
IsEmptyTable(t) == Len(t.columns) = 0 \/ Len(t.rows) = 0

FirstN(q, n) == SubSeq(q, 1, Min(n, Len(q)))

Column(t, c) == [r \in DOMAIN t.rows |-> t.rows[r][c]]

\* CSVParser._dataframe_to_text (lines 173-188)
DataframeToText(t) ==
    LET header == IF Len(t.columns) > 0 THEN <<Join(t.columns, <<",">>)>> ELSE <<>>
        kept == SelectSeq(t.rows,
                    LAMBDA row :
                        LET row_text == Join(row, <<",">>)
                        IN  /\ Strip(row_text) # <<>>
                            /\ row_text # [i \in 1 .. (Len(row) - 1) |-> ","])
    IN  Join(header \o [r \in DOMAIN kept |-> Join(kept[r], <<",">>)], <<"\n">>)

\* csv_parser.py lines 219-223
financial_header_terms ==
    <<
      <<"a", "s", "s", "e", "t", "s">>,
      <<"l", "i", "a", "b", "i", "l", "i", "t", "i", "e", "s">>,
      <<"e", "q", "u", "i", "t", "y">>, <<"a", "m", "o", "u", "n", "t">>,
      <<"b", "a", "l", "a", "n", "c", "e">>, <<"t", "o", "t", "a", "l">>,
      <<"c", "u", "r", "r", "e", "n", "t">>,
      <<"l", "o", "n", "g", "-", "t", "e", "r", "m">>,
      <<"c", "a", "s", "h">>,
      <<"r", "e", "c", "e", "i", "v", "a", "b", "l", "e", "s">>,
      <<"i", "n", "v", "e", "n", "t", "o", "r", "y">>,
      <<"d", "e", "b", "t">>, <<"c", "a", "p", "i", "t", "a", "l">>,
      <<"e", "a", "r", "n", "i", "n", "g", "s">>, <<"v", "a", "l", "u", "e">> >>

\* csv_parser.py line 236
financial_item_terms ==
    <<
      <<"c", "a", "s", "h">>,
      <<"r", "e", "c", "e", "i", "v", "a", "b", "l", "e">>,
      <<"i", "n", "v", "e", "n", "t", "o", "r", "y">>,
      <<"p", "a", "y", "a", "b", "l", "e">>, <<"d", "e", "b", "t">>,
      <<"e", "q", "u", "i", "t", "y">>, <<"a", "s", "s", "e", "t">>,
      <<"l", "i", "a", "b", "i", "l", "i", "t", "y">> >>

LargeNumber == 1000

\* CSVParser._is_financial_dataframe (lines 212-255)
IsFinancialDataframe(t) ==
    IF IsEmptyTable(t) THEN FALSE
    ELSE LET has_financial_headers ==
                 \E c \in DOMAIN t.columns :
                     ContainsAny(Lower(t.columns[c]), financial_header_terms)
             first_column_text ==
                 Join(FirstN([r \in DOMAIN t.rows |-> Lower(t.rows[r][1])], 10), <<" ">>)
             has_financial_items ==
                 ContainsAny(first_column_text, financial_item_terms)
             has_large_numbers ==
                 \E c \in 2 .. Len(t.columns) :
                     LET figures == extract_financial_figures(
                                        Join(FirstN(Column(t, c), 5), <<" ">>))
                     IN  \E f \in DOMAIN figures :
                             figures[f].amount > 100 * LargeNumber
         IN  has_financial_headers \/ (has_financial_items /\ has_large_numbers)

\* CSVParser._extract_table_from_dataframe (lines 190-210), without the
\* copies of the cells
ExtractTableFromDataframe(t) ==
    IF IsEmptyTable(t) THEN [present |-> FALSE]
    ELSE [present |-> TRUE,
          row_count |-> Len(t.rows),
          column_count |-> Len(t.columns),
          is_financial |-> IsFinancialDataframe(t)]

\* csv_parser.py line 413
bs_terms ==
    <<
      <<"a", "s", "s", "e", "t", "s">>,
      <<"l", "i", "a", "b", "i", "l", "i", "t", "i", "e", "s">>,
      <<"e", "q", "u", "i", "t", "y">>,
      <<"b", "a", "l", "a", "n", "c", "e", " ", "s", "h", "e", "e", "t">> >>

\* csv_parser.py line 440
assets_section_terms ==
    <<
      <<"a", "s", "s", "e", "t", "s">>,
      <<"c", "u", "r", "r", "e", "n", "t", " ", "a", "s", "s", "e", "t", "s">>,
      <<"n", "o", "n", "-", "c", "u", "r", "r", "e", "n", "t", " ", "a", "s", "s", "e", "t", "s">> >>

\* csv_parser.py line 442
liabilities_section_terms ==
    <<
      <<"l", "i", "a", "b", "i", "l", "i", "t", "i", "e", "s">>,
      <<"c", "u", "r", "r", "e", "n", "t", " ", "l", "i", "a", "b", "i", "l", "i", "t", "i", "e", "s">>,
      <<"l", "o", "n", "g", "-", "t", "e", "r", "m">> >>

\* csv_parser.py line 444
equity_section_terms ==
    <<
      <<"e", "q", "u", "i", "t", "y">>,
      <<"s", "h", "a", "r", "e", "h", "o", "l", "d", "e", "r", "s", " ", "e", "q", "u", "i", "t", "y">>,
      <<"s", "t", "o", "c", "k", "h", "o", "l", "d", "e", "r", "s">> >>

\* the weights and thresholds of _analyze_csv_structure
TermScore == 10
DateColumnsScore == 15
LineItemsScore == 20
SectionsScore == 25
MinDateColumns == 2
MinLineItems == 5
MinSections == 2
LikelyPercent == 30

\* lines 437-445: the section label of one row, "" when it has none
SectionOf(row) ==
    LET item_name == Strip(Lower(row[1]))
    IN  IF ContainsAny(item_name, assets_section_terms) THEN "assets"
        ELSE IF ContainsAny(item_name, liabilities_section_terms) THEN "liabilities"
        ELSE IF ContainsAny(item_name, equity_section_terms) THEN "equity"
        ELSE ""

\* lines 448-449: the test on the sections found
EnoughSections(sections) == Len(sections) >= MinSections

\* lines 461-462: confidence_score is kept in hundredths, so
\* "confidence_score > 0.3" is "hundredths > 30"
ConfidenceOf(bs_score) == Min(bs_score, 100)
IsLikely_AtLeast(confidence) == confidence >= LikelyPercent
IsLikely(confidence) == confidence > LikelyPercent

\* CSVParser._analyze_csv_structure (lines 395-464)
AnalyzeCsvStructure(t) ==
    IF IsEmptyTable(t)
    THEN [likely_balance_sheet |-> FALSE, confidence_score |-> 0,
          structure_type |-> "unknown", time_series |-> FALSE,
          multi_period |-> FALSE, identified_sections |-> {}]
    ELSE LET all_text == Lower(DataframeToText(t))
             term_score ==
                 TermScore * Len(SelectSeq(bs_terms, LAMBDA term : Contains(all_text, term)))
             date_like_columns ==
                 Len(SelectSeq(Tail(t.columns),
                               LAMBDA col : \E i \in DOMAIN col : IsDigit(col[i])))
             time_series ==
                 Len(t.columns) > 2 /\ date_like_columns >= MinDateColumns
             first_col_items == FirstN([r \in DOMAIN t.rows |-> Lower(t.rows[r][1])], 20)
             bs_items == Len(SelectSeq(first_col_items, IsBalanceSheetLineItem))
             many_items == bs_items >= MinLineItems
             sections == SelectSeq([r \in DOMAIN t.rows |-> SectionOf(t.rows[r])],
                                   LAMBDA x : x # "")
             bs_score == term_score
                         + (IF time_series THEN DateColumnsScore ELSE 0)
                         + (IF many_items THEN LineItemsScore ELSE 0)
                         + (IF EnoughSections(sections) THEN SectionsScore ELSE 0)
             structure_type ==
                 IF many_items THEN "balance_sheet"
                 ELSE IF time_series THEN "time_series_financial"
                 ELSE IF IsFinancialDataframe(t) THEN "financial_data"
                 ELSE "general_data"
         IN  [likely_balance_sheet |-> IsLikely(ConfidenceOf(bs_score)),
              confidence_score |-> ConfidenceOf(bs_score),
              structure_type |-> structure_type,
              time_series |-> time_series,
              multi_period |-> time_series,
              identified_sections |-> {sections[i] : i \in DOMAIN sections}]

\* lines 323-325: rows without a usable item name are skipped
HasItemName(row) ==
    LET item_name == Strip(row[1])
    IN  Lower(item_name) \notin {<<>>, <<"n", "a", "n">>, <<"n", "o", "n", "e">>}

\* lines 327-340: the item built from a row
ItemOf(row) ==
    [name |-> Strip(row[1]),
     category |-> CategorizeBalanceSheetItem(Strip(row[1])),
     amounts |-> extract_financial_figures(Join(Tail(row), <<" ">>))]

\* "category.startswith(prefix)"
StartsWith(str, prefix) ==
    \E rest \in {"other", "unknown"} \cup
                {asset_patterns[i].category : i \in DOMAIN asset_patterns} \cup
                {liability_patterns[i].category : i \in DOMAIN liability_patterns} \cup
                {equity_patterns[i].category : i \in DOMAIN equity_patterns} :
        str = prefix \o rest

\* CSVParser._extract_balance_sheet_from_dataframe (lines 308-350)
ExtractBalanceSheetFromDataframe(t) ==
    LET line_items ==
            IF IsEmptyTable(t) THEN <<>>
            ELSE LET rows == SelectSeq(t.rows,
                                 LAMBDA row : /\ HasItemName(row)
                                              /\ IsBalanceSheetLineItem(Strip(row[1])))
                 IN  [i \in DOMAIN rows |-> ItemOf(rows[i])]
        Bucket(prefix) == SelectSeq(line_items, LAMBDA it : StartsWith(it.category, prefix))
    IN  [assets |-> Bucket("asset_"),
         liabilities |-> Bucket("liability_"),
         equity |-> Bucket("equity_")]

----------------------------------------------------------------------------
(* The tables the analysis is run on: a header and any selection of the    *)
(* rows of the pool, in the pool's order.                                  *)

HeaderPool ==
    << <<<<"I", "t", "e", "m">>, <<"2", "0", "2", "3">>, <<"2", "0", "2", "2">>>>,
       <<<<"I", "t", "e", "m">>, <<"A", "m", "o", "u", "n", "t">>, <<"N", "o", "t", "e", "s">>>>,
       <<<<"B", "a", "l", "a", "n", "c", "e", " ", "S", "h", "e", "e", "t">>, <<"2", "0", "2", "3">>>> >>

RowPool ==
    << <<<<"C", "a", "s", "h", " ", "a", "n", "d", " ", "e", "q", "u", "i", "v", "a", "l", "e", "n", "t", "s">>, <<"1", "0", "0", "0">>, <<"9", "0", "0">>>>,
       <<<<"A", "c", "c", "o", "u", "n", "t", "s", " ", "p", "a", "y", "a", "b", "l", "e">>, <<"5", "0", "0">>, <<"4", "5", "0">>>>,
       <<<<"T", "o", "t", "a", "l", " ", "a", "s", "s", "e", "t", "s">>, <<"1", "5", "0", "0">>, <<"1", "3", "5", "0">>>>,
       <<<<"T", "o", "t", "a", "l", " ", "l", "i", "a", "b", "i", "l", "i", "t", "i", "e", "s">>, <<"5", "0", "0">>, <<"4", "5", "0">>>>,
       <<<<"R", "e", "t", "a", "i", "n", "e", "d", " ", "e", "a", "r", "n", "i", "n", "g", "s">>, <<"1", ",", "0", "0", "0", ".", "0", "0">>, <<"9", "0", "0">>>>,
       <<<<"I", "n", "v", "e", "n", "t", "o", "r", "y">>, <<"$", "2", "0", "0">>, <<"1", "5", "0">>>>,
       <<<<"R", "e", "v", "e", "n", "u", "e">>, <<"5", "0", "0", "0">>, <<"4", "0", "0", "0">>>>,
       <<<<"C", "u", "r", "r", "e", "n", "t", " ", "a", "s", "s", "e", "t", "s">>, <<"7", "0", "0">>, <<"6", "5", "0">>>> >>

RECURSIVE PickRows(_, _, _)
PickRows(k, picked, width) ==
    IF k > Len(RowPool) THEN <<>>
    ELSE (IF k \in picked THEN <<FirstN(RowPool[k], width)>> ELSE <<>>)
         \o PickRows(k + 1, picked, width)

\* a cleaned table with no row has no column either (_clean_dataframe)
Tables ==
    {[columns |-> IF picked = {} THEN <<>> ELSE HeaderPool[h],
      rows |-> PickRows(1, picked, Len(HeaderPool[h]))] :
        h \in DOMAIN HeaderPool, picked \in SUBSET DOMAIN RowPool}

NoTable == [columns |-> <<>>, rows |-> <<>>]

NoAnalysis == AnalyzeCsvStructure(NoTable)

NoItems == ExtractBalanceSheetFromDataframe(NoTable)

\* no call of a text function is under way
NoCall == [fn |-> "none", arg |-> <<>>]

NotReturned == [done |-> FALSE]

----------------------------------------------------------------------------
(* Program constants *)

MinChars == 100
ChunkSize == 500
Overlap == 100
SentenceWindow == 100

(* Bounds of the model *)

MaxTextLen == 620
MaxChunks == 3
DotStride == 25
MaxTables == 1
MaxSheets == 2

----------------------------------------------------------------------------
(* Texts, abstracted to lengths.  len is len(text), slen is                *)
(* len(text.strip()); src names the method that produced the text.         *)

TextLens == {0, MinChars - 1, MinChars, ChunkSize, MaxTextLen}

Methods == <<"pdfplumber", "pypdf2", "ocr">>

OcrWarning == "Text extracted using OCR - accuracy may be lower"

EmptyText(src) == [len |-> 0, slen |-> 0, src |-> src]

\* ParsingResult(success=False): every list field defaults to empty, metadata to None;
\* tables is the number of tables, table_scales the 'scale' of the
\* financial_data of each table that has one
NewResult ==
    [success |-> FALSE, chunks |-> <<>>, tables |-> 0, table_scales |-> <<>>,
     errors |-> <<>>, warnings |-> <<>>, metadata |-> [present |-> FALSE]]

\* the threshold test with <= in place of <
BelowThreshold_OffByOne(t) == t.len = 0 \/ t.slen <= MinChars

\* "not text_content or len(text_content.strip()) < 100"
BelowThreshold(t) == t.len = 0 \/ t.slen < MinChars

----------------------------------------------------------------------------
(* The parser instance: what __init__ assigns to self *)

\* an XML element name as written in a path: "us-gaap:Assets" has the
\* prefix "us-gaap" and the local name "Assets", "Assets" has no prefix
\* lines 43-61: each category with the element names tried for it
balance_sheet_elements ==
    << [category |-> <<"A", "s", "s", "e", "t", "s">>,
        element_names |-> <<[prefix |-> "", local |-> "Assets"],
                            [prefix |-> "us-gaap", local |-> "Assets"]>>],
       [category |-> <<"C", "u", "r", "r", "e", "n", "t", "A", "s", "s", "e", "t", "s">>,
        element_names |-> <<[prefix |-> "", local |-> "AssetsCurrent"],
                            [prefix |-> "us-gaap", local |-> "AssetsCurrent"]>>],
       [category |-> <<"C", "a", "s", "h", "A", "n", "d", "C", "a", "s", "h", "E", "q", "u", "i", "v", "a", "l", "e", "n", "t", "s">>,
        element_names |-> <<[prefix |-> "", local |-> "CashAndCashEquivalentsAtCarryingValue"],
                            [prefix |-> "us-gaap", local |-> "CashAndCashEquivalentsAtCarryingValue"]>>],
       [category |-> <<"A", "c", "c", "o", "u", "n", "t", "s", "R", "e", "c", "e", "i", "v", "a", "b", "l", "e">>,
        element_names |-> <<[prefix |-> "", local |-> "AccountsReceivableNetCurrent"],
                            [prefix |-> "us-gaap", local |-> "AccountsReceivableNetCurrent"]>>],
       [category |-> <<"I", "n", "v", "e", "n", "t", "o", "r", "y">>,
        element_names |-> <<[prefix |-> "", local |-> "InventoryNet"],
                            [prefix |-> "us-gaap", local |-> "InventoryNet"]>>],
       [category |-> <<"P", "r", "o", "p", "e", "r", "t", "y", "P", "l", "a", "n", "t", "E", "q", "u", "i", "p", "m", "e", "n", "t">>,
        element_names |-> <<[prefix |-> "", local |-> "PropertyPlantAndEquipmentNet"],
                            [prefix |-> "us-gaap", local |-> "PropertyPlantAndEquipmentNet"]>>],
       [category |-> <<"L", "i", "a", "b", "i", "l", "i", "t", "i", "e", "s">>,
        element_names |-> <<[prefix |-> "", local |-> "Liabilities"],
                            [prefix |-> "us-gaap", local |-> "Liabilities"]>>],
       [category |-> <<"C", "u", "r", "r", "e", "n", "t", "L", "i", "a", "b", "i", "l", "i", "t", "i", "e", "s">>,
        element_names |-> <<[prefix |-> "", local |-> "LiabilitiesCurrent"],
                            [prefix |-> "us-gaap", local |-> "LiabilitiesCurrent"]>>],
       [category |-> <<"A", "c", "c", "o", "u", "n", "t", "s", "P", "a", "y", "a", "b", "l", "e">>,
        element_names |-> <<[prefix |-> "", local |-> "AccountsPayableCurrent"],
                            [prefix |-> "us-gaap", local |-> "AccountsPayableCurrent"]>>],
       [category |-> <<"L", "o", "n", "g", "T", "e", "r", "m", "D", "e", "b", "t">>,
        element_names |-> <<[prefix |-> "", local |-> "LongTermDebtNoncurrent"],
                            [prefix |-> "us-gaap", local |-> "LongTermDebtNoncurrent"]>>],
       [category |-> <<"S", "t", "o", "c", "k", "h", "o", "l", "d", "e", "r", "s", "E", "q", "u", "i", "t", "y">>,
        element_names |-> <<[prefix |-> "", local |-> "StockholdersEquity"],
                            [prefix |-> "us-gaap", local |-> "StockholdersEquity"]>>],
       [category |-> <<"R", "e", "t", "a", "i", "n", "e", "d", "E", "a", "r", "n", "i", "n", "g", "s">>,
        element_names |-> <<[prefix |-> "", local |-> "RetainedEarningsAccumulatedDeficit"],
                            [prefix |-> "us-gaap", local |-> "RetainedEarningsAccumulatedDeficit"]>>] >>

\* base_parser.py lines 31-119 and xml_parser.py lines 24-61: the attributes
\* of a freshly constructed instance (the XML back-end's, which has them all)
NewInstance ==
    [supported_formats |-> <<"xml", "xbrl">>,
     currency_patterns |-> currency_patterns,
     asset_patterns |-> asset_patterns,
     liability_patterns |-> liability_patterns,
     equity_patterns |-> equity_patterns,
     balance_sheet_elements |-> balance_sheet_elements]

----------------------------------------------------------------------------
(* State after construction: no parse() call is running. *)

\* a field a dict does not have
NoField == [absent |-> TRUE]

\* balance_sheet_data before any fact is appended (xml_parser.py 296-300)
NoFacts == [assets |-> <<>>, liabilities |-> <<>>, equity |-> <<>>]

\* no tree has been parsed
NoDocument ==
    [xbrl_root |-> FALSE, contexts |-> <<>>, units |-> <<>>, facts |-> <<>>]

ParseIdle ==
    /\ backend = "none"
    /\ pc = "idle"
    /\ outcome = "running"
    /\ result = NewResult
    /\ failures = {}
    /\ text_content = EmptyText("none")
    /\ yielded = <<>>
    /\ temp_files = {}
    /\ chunk_input = 0
    /\ start = 0
    /\ text_chunks = <<>>
    /\ windows = <<>>
    /\ encoding = "none"
    /\ csv_file = <<>>
    /\ attempts = <<>>
    /\ df = [kind |-> "none"]
    /\ all_sheets = <<>>
    /\ sheet_no = 0
    /\ all_chunks = <<>>
    /\ all_tables = 0
    /\ parsed_data = [is_xbrl |-> FALSE, tables |-> 0, balance_sheet_data |-> NoFacts]
    /\ xml_root = NoDocument

\* no table is being analysed
TableIdle ==
    /\ df_cleaned = NoTable
    /\ table_pc = "none"
    /\ table_data = [present |-> FALSE]
    /\ balance_sheet_items = NoItems
    /\ structure_analysis = NoAnalysis

\* no text function is being called
CallIdle ==
    /\ fn_call = NoCall
    /\ fn_return = NotReturned

\* a single call reads the tables of its own instance, the definitions above:
\* no instance is shared and no second call runs
NoInstance == [shared |-> FALSE]

SharedIdle ==
    /\ instance = NoInstance
    /\ threads = <<>>

Init ==
    /\ ParseIdle
    /\ TableIdle
    /\ CallIdle
    /\ SharedIdle

----------------------------------------------------------------------------
(* Top-level handler shared by the four parse() methods:                   *)
(*   except Exception as e:                                                *)
(*       return ParsingResult(success=False, errors=[f"... failed: {e}"])  *)

TopLevelExcept(be) ==
    [NewResult EXCEPT !.errors = <<be \o " parsing failed">>]

\* the failures a step can raise; all are subclasses of Exception
ExceptionKinds == {"ValueError", "KeyError", "MemoryError"}

\* a handler that names one exception type instead of Exception
Catches_Narrow(kind) == kind = "ValueError"

\* "except Exception": which raised failures the handler catches
Catches(kind) == kind \in ExceptionKinds

\* the steps of parse() that run directly under the top-level try, outside
\* any helper that has its own handler
TopLevelSteps ==
    {"pdf_clean", "split", "split_loop", "pdf_finish",
     "csv_check_df", "csv_clean", "csv_finish",
     "excel_check_sheets", "excel_sheet", "excel_sheet_done", "excel_finish",
     "xml_parse", "xml_finish"}

\* an exception is raised at a top-level step and reaches the handler
RaiseTopLevel ==
    /\ pc \in TopLevelSteps
    /\ outcome = "running"
    /\ failures' = failures \cup {[at |-> pc, caught |-> "top"]}
    /\ \E kind \in ExceptionKinds :
         IF Catches(kind)
         THEN /\ result' = TopLevelExcept(backend)
              /\ outcome' = "result"
         ELSE /\ outcome' = "escaped"
              /\ UNCHANGED result
    /\ pc' = "returned"
    /\ UNCHANGED <<backend, pdfVars, splitVars, csvVars, excelVars, xmlVars, tableVars, callVars, sharedVars>>

----------------------------------------------------------------------------
(* PDFParser.parse *)

\* what a text-extraction helper can return: any text, or "" when its own
\* handler swallowed an exception
ExtractedTexts(src) ==
    {[len |-> l, slen |-> s, src |-> src] : l \in TextLens, s \in TextLens} 

PlausibleText(t) == t.slen <= t.len

\* _extract_with_ocr appends a page's text only if text.strip() is non-empty
OcrTexts ==
    {t \in ExtractedTexts("ocr") : PlausibleText(t) /\ (t.len > 0 => t.slen > 0)}

\* the methods called so far, in call order
invoked == [i \in DOMAIN yielded |-> yielded[i].src]

\* line 44 / line 48: where parse() goes after a method returned t
AfterPdfplumber(t) == IF BelowThreshold(t) THEN "pdf_pypdf2" ELSE "pdf_check_text"
AfterPypdf2(t) == IF BelowThreshold(t) THEN "pdf_ocr" ELSE "pdf_check_text"

\* the warning attached only when the OCR text passes the threshold
OcrWarnings_AboveThreshold(warnings, t) ==
    IF t.slen >= MinChars THEN Append(warnings, OcrWarning) ELSE warnings

\* lines 51-52: the warning attached when OCR returned text
OcrWarnings(warnings, t) ==
    IF t.len > 0 THEN Append(warnings, OcrWarning) ELSE warnings

\* the error is appended but the "return result" is missing
AfterCheckText_NoReturn(t) == "pdf_clean"

\* lines 54-56: "if not text_content" appends the error and returns
AfterCheckText(t) == IF t.len = 0 THEN "returned" ELSE "pdf_clean"

\* _determine_extraction_method (lines 374-377)
DetermineExtractionMethod(t) == "pdfplumber"

StartPdf ==
    /\ pc = "idle"
    /\ backend' = "pdf"
    /\ result' = NewResult
    /\ pc' = "pdf_plumber"
    /\ UNCHANGED <<outcome, failures, pdfVars, splitVars, csvVars, excelVars,
                   xmlVars, tableVars, callVars, sharedVars>>

\* a helper call: either it returns a text, or it raises inside its own try
\* and returns ""
HelperCall(name, texts) ==
    \E raised \in BOOLEAN :
      \E t \in texts :
        /\ PlausibleText(t)
        /\ raised => t.len = 0
        /\ failures' = IF raised
                       THEN failures \cup {[at |-> name, caught |-> "helper"]}
                       ELSE failures
        /\ text_content' = t
        /\ yielded' = Append(yielded, t)

ExtractWithPdfplumber ==
    /\ pc = "pdf_plumber"
    /\ HelperCall("pdfplumber", ExtractedTexts("pdfplumber"))
    /\ pc' = AfterPdfplumber(text_content')
    /\ UNCHANGED <<backend, outcome, result, temp_files, splitVars,
                   csvVars, excelVars, xmlVars, tableVars, callVars, sharedVars>>

ExtractWithPypdf2 ==
    /\ pc = "pdf_pypdf2"
    /\ HelperCall("pypdf2", ExtractedTexts("pypdf2"))
    /\ pc' = AfterPypdf2(text_content')
    /\ UNCHANGED <<backend, outcome, result, temp_files, splitVars,
                   csvVars, excelVars, xmlVars, tableVars, callVars, sharedVars>>

\* lines 146-165: what can happen to one page.  "pixmap_fails": rendering
\* the page raises before the temporary file exists; "write_fails":
\* NamedTemporaryFile(delete=False) has created the file and temp_file.write
\* raises; "open_fails" and "ocr_fails": Image.open or image_to_string
\* raises inside the try of line 158; "blank" and "text": the OCR call
\* returns a blank or a non-blank text
PageOutcomes ==
    {"pixmap_fails", "write_fails", "open_fails", "ocr_fails", "blank", "text"}

PageRaises(page) ==
    page \in {"pixmap_fails", "write_fails", "open_fails", "ocr_fails"}

\* the temporary file of a page is created by line 154 and removed by the
\* os.unlink of the finally clause (line 165), which guards lines 159-162 only
PageFileCreated(page) == page # "pixmap_fails"

PageFileUnlinked(page) == page \in {"open_fails", "ocr_fails", "blank", "text"}

MaxPages == 2

PageRuns == UNION {[1 .. n -> PageOutcomes] : n \in 0 .. MaxPages}

\* the pages the loop of line 146 takes up: it stops at the first page that
\* raises, because the handler of line 170 is outside the loop
PagesTaken(pages) ==
    IF \E k \in DOMAIN pages : PageRaises(pages[k])
    THEN SubSeq(pages, 1, CHOOSE k \in DOMAIN pages :
                             /\ PageRaises(pages[k])
                             /\ \A j \in 1 .. (k - 1) : ~PageRaises(pages[j]))
    ELSE pages

\* the temporary files left on disk when _extract_with_ocr returns
FilesLeft(taken) ==
    {k \in DOMAIN taken : PageFileCreated(taken[k]) /\ ~PageFileUnlinked(taken[k])}

OcrRaised(taken) == \E k \in DOMAIN taken : PageRaises(taken[k])

\* lines 138-172: the page loop, and the text or "" the helper returns
ExtractWithOcr ==
    /\ pc = "pdf_ocr"
    /\ HelperCall("ocr", OcrTexts)
    /\ \E pages \in PageRuns :
         LET taken == PagesTaken(pages)
         IN  /\ OcrRaised(taken) <=> [at |-> "ocr", caught |-> "helper"] \in failures'
             /\ text_content'.len > 0 <=>
                   (~OcrRaised(taken) /\ \E k \in DOMAIN taken : taken[k] = "text")
             /\ temp_files' = temp_files \cup FilesLeft(taken)
    /\ pc' = "pdf_check_text"
    /\ result' = [result EXCEPT !.warnings = OcrWarnings(@, text_content')]
    /\ UNCHANGED <<backend, outcome, splitVars, csvVars, excelVars, xmlVars, tableVars, callVars, sharedVars>>

PdfCheckText ==
    /\ pc = "pdf_check_text"
    /\ pc' = AfterCheckText(text_content)
    /\ IF text_content.len = 0
       THEN /\ result' = [result EXCEPT
                            !.errors = Append(@, "Failed to extract text from PDF")]
            /\ outcome' = IF pc' = "returned" THEN "result" ELSE outcome
       ELSE UNCHANGED <<result, outcome>>
    /\ UNCHANGED <<backend, failures, pdfVars, splitVars, csvVars, excelVars,
                   xmlVars, tableVars, callVars, sharedVars>>

\* _clean_text: collapses whitespace, removes non-printable characters and
\* strips, so the cleaned text is no longer than the stripped text
PdfClean ==
    /\ pc = "pdf_clean"
    /\ \E c \in TextLens :
         /\ c <= text_content.slen
         /\ chunk_input' = c
    /\ pc' = "split"
    /\ UNCHANGED <<backend, outcome, result, failures, pdfVars, start,
                   text_chunks, windows, csvVars, excelVars, xmlVars, tableVars,
                   callVars, sharedVars>>

----------------------------------------------------------------------------
(* BaseParser._split_into_chunks(text, chunk_size=500, overlap=100), on    *)
(* a text of length chunk_input.  A window is [s, e) and n is the length   *)
(* of text[s:e] as appended (stripped inside the loop).                    *)

\* lines 283-284
FitsOneChunk_Strict(len) == len < ChunkSize
FitsOneChunk(len) == len <= ChunkSize

\* text.rfind('.', end - 100, end): -1, or the position of a '.' in the range
\* (the texts considered have their '.' at multiples of DotStride)
SentenceEnds(end) ==
    {-1} \cup {p \in (end - SentenceWindow) .. (end - 1) : p % DotStride = 0}

\* lines 290-297: the window end for a window starting at st
WindowEnd(st, len, sentence_end) ==
    LET end == Min(st + ChunkSize, len)
    IN  IF end < len /\ sentence_end > st THEN sentence_end + 1 ELSE end

\* len(text[s:e].strip()) for a window of width w: nothing, one edge
\* character, or everything stripped
StrippedLens(w) == {w, 0} \cup (IF w >= 2 THEN {w - 1} ELSE {})

\* line 304
NextStart_Forward(end) == end + Overlap
NextStart(end) == end - Overlap

\* where parse() continues once the chunker returned
AfterSplit(be) ==
    CASE be = "pdf" -> "pdf_finish"
      [] be = "csv" -> "csv_finish"
      [] be = "excel" -> "excel_sheet_done"
      [] OTHER -> "xml_finish"

Split ==
    /\ pc = "split"
    /\ start' = 0
    /\ IF FitsOneChunk(chunk_input)
       THEN /\ text_chunks' = <<[s |-> 0, e |-> chunk_input, n |-> chunk_input]>>
            /\ windows' = <<[s |-> 0, e |-> chunk_input]>>
            /\ pc' = AfterSplit(backend)
       ELSE /\ text_chunks' = <<>>
            /\ windows' = <<>>
            /\ pc' = "split_loop"
    /\ UNCHANGED <<backend, outcome, result, failures, pdfVars, chunk_input,
                   csvVars, excelVars, xmlVars, tableVars, callVars, sharedVars>>

\* one iteration of the while loop (lines 289-306)
SplitLoop ==
    /\ pc = "split_loop"
    /\ Len(windows) < MaxChunks
    /\ IF start < chunk_input
       THEN \E se \in SentenceEnds(Min(start + ChunkSize, chunk_input)) :
              LET end == WindowEnd(start, chunk_input, se)
              IN  \E n \in StrippedLens(end - start) :
                    /\ text_chunks' =
                         IF n > 0
                         THEN Append(text_chunks, [s |-> start, e |-> end, n |-> n])
                         ELSE text_chunks
                    /\ windows' = Append(windows, [s |-> start, e |-> end])
                    /\ start' = NextStart(end)
                    /\ pc' = IF start' >= chunk_input
                             THEN AfterSplit(backend) ELSE "split_loop"
       ELSE /\ pc' = AfterSplit(backend)
            /\ UNCHANGED <<start, text_chunks, windows>>
    /\ UNCHANGED <<backend, outcome, result, failures, pdfVars, chunk_input,
                   csvVars, excelVars, xmlVars, tableVars, callVars, sharedVars>>

\* "for i, chunk_text in enumerate(text_chunks): DocumentChunk(chunk_index=i, ...)"
MakeChunks(tc) ==
    [i \in 1 .. Len(tc) |-> [chunk_index |-> i - 1, len |-> tc[i].n]]

----------------------------------------------------------------------------
(* PDFParser.parse, lines 75-100 *)

PdfFinish ==
    /\ pc = "pdf_finish"
    /\ \E tables \in 0 .. MaxTables :
       \E raised \in BOOLEAN :
       \E financial \in 0 .. tables :
       \E cleaned_text \in ScaleTexts :
         /\ raised => tables = 0
         /\ failures' = IF raised
                        THEN failures \cup {[at |-> "tables", caught |-> "helper"]}
                        ELSE failures
         /\ result' = [result EXCEPT
                         !.success = TRUE,
                         !.chunks = MakeChunks(text_chunks),
                         !.tables = tables,
                         !.table_scales = UnitsScales(financial),
                         !.metadata = [present |-> TRUE,
                                       scale |-> ScaleOfText[cleaned_text],
                                       extraction_method |->
                                           DetermineExtractionMethod(text_content)]]
    /\ outcome' = "result"
    /\ pc' = "returned"
    /\ UNCHANGED <<backend, pdfVars, splitVars, csvVars, excelVars, xmlVars, tableVars, callVars, sharedVars>>

----------------------------------------------------------------------------
(* CSVParser.parse *)

Encodings == {"utf-8", "latin-1"}

\* what one pd.read_csv call does: raise, or return an empty table, a
\* single-column table, or a table with rows and more than one column
ReadOutcomes == {"raise", "empty", "onecol", "ok"}

\* read_attempts (lines 128-141); "absent" marks a key the dict does not have
read_attempts(enc) ==
    << [encoding |-> enc, sep |-> ",", error_bad_lines |-> "absent"],
       [encoding |-> enc, sep |-> ";", error_bad_lines |-> "absent"],
       [encoding |-> enc, sep |-> "\t", error_bad_lines |-> "absent"],
       [encoding |-> "latin-1", sep |-> ",", error_bad_lines |-> "absent"],
       [encoding |-> enc, sep |-> "None", error_bad_lines |-> "absent"],
       [encoding |-> enc, sep |-> ",", error_bad_lines |-> "False"] >>

\* line 146: {k: v for k, v in params.items() if v is not None}
clean_params(params) ==
    [params EXCEPT !.sep = IF @ = "None" THEN "absent" ELSE @]

\* the parameters pd.read_csv works with: a missing sep is the default ','
Effective(cp) ==
    [cp EXCEPT !.sep = IF @ = "absent" THEN "," ELSE @]

EffectiveCombos(enc) ==
    {Effective(clean_params(read_attempts(enc)[i])) : i \in 1 .. Len(read_attempts(enc))}

\* the acceptance test without the column count
Accepted_AnyColumns(o) == o \in {"ok", "onecol"}

\* line 149: "not df.empty and len(df.columns) > 1"
Accepted(o) == o = "ok"

StartCsv ==
    /\ pc = "idle"
    /\ backend' = "csv"
    /\ result' = NewResult
    /\ \E enc \in Encodings :
         /\ encoding' = enc
         /\ csv_file' \in [EffectiveCombos(enc) -> ReadOutcomes]
    /\ pc' = "csv_read"
    /\ UNCHANGED <<outcome, failures, pdfVars, splitVars, attempts, df,
                   excelVars, xmlVars, tableVars, callVars, sharedVars>>

\* one iteration of "for params in read_attempts" (lines 143-153), or the
\* "return None" after the last one (line 155)
ReadCsvAttempt ==
    /\ pc = "csv_read"
    /\ IF Len(attempts) < Len(read_attempts(encoding))
       THEN LET i == Len(attempts) + 1
                cp == clean_params(read_attempts(encoding)[i])
                o == csv_file[Effective(cp)]
            IN  /\ attempts' = Append(attempts, cp)
                /\ failures' = IF o = "raise"
                               THEN failures \cup {[at |-> "read_csv", caught |-> "helper"]}
                               ELSE failures
                /\ IF Accepted(o)
                   THEN /\ df' = [kind |-> o, attempt |-> i]
                        /\ pc' = "csv_check_df"
                   ELSE UNCHANGED <<df, pc>>
       ELSE /\ df' = [kind |-> "None", attempt |-> 0]
            /\ pc' = "csv_check_df"
            /\ UNCHANGED <<attempts, failures>>
    /\ UNCHANGED <<backend, outcome, result, pdfVars, splitVars, encoding,
                   csv_file, excelVars, xmlVars, tableVars, callVars, sharedVars>>

\* lines 44-46: "if df is None or df.empty"
CsvCheckDf ==
    /\ pc = "csv_check_df"
    /\ IF df.kind = "None" \/ df.kind = "empty"
       THEN /\ result' = [result EXCEPT
                !.errors = Append(@, "Failed to read CSV file or file is empty")]
            /\ outcome' = "result"
            /\ pc' = "returned"
       ELSE /\ pc' = "csv_clean"
            /\ UNCHANGED <<result, outcome>>
    /\ UNCHANGED <<backend, failures, pdfVars, splitVars, csvVars, excelVars,
                   xmlVars, tableVars, callVars, sharedVars>>

\* lines 48-52: _clean_dataframe then _dataframe_to_text.  A table whose cells
\* are all NaN loses every row and then every column, and its text is "";
\* any other table keeps a row and a column and has a non-empty text.
CsvClean ==
    /\ pc = "csv_clean"
    /\ \E blank \in BOOLEAN :
       \E len \in TextLens :
         /\ blank <=> len = 0
         /\ df' = [df EXCEPT !.kind = IF blank THEN "cleaned_empty" ELSE "cleaned"]
         /\ chunk_input' = len
    /\ pc' = "split"
    /\ UNCHANGED <<backend, outcome, result, failures, pdfVars, start,
                   text_chunks, windows, encoding, csv_file, attempts, excelVars,
                   xmlVars, tableVars, callVars, sharedVars>>

\* _extract_table_from_dataframe: None for an empty table (lines 192-193)
CsvTables(d) == IF d.kind = "cleaned_empty" THEN 0 ELSE 1

\* lines 67-93
CsvFinish ==
    /\ pc = "csv_finish"
    /\ \E csv_text \in ScaleTexts :
       \E is_financial \in BOOLEAN :
         result' = [result EXCEPT
                      !.success = TRUE,
                      !.chunks = MakeChunks(text_chunks),
                      !.tables = CsvTables(df),
                      !.table_scales = IF CsvTables(df) = 1 /\ is_financial
                                       THEN <<ScaleOfText[csv_text]>>
                                       ELSE <<>>,
                      !.metadata = [present |-> TRUE, encoding |-> encoding,
                                    scale |-> ScaleOfText[csv_text]]]
    /\ outcome' = "result"
    /\ pc' = "returned"
    /\ UNCHANGED <<backend, failures, pdfVars, splitVars, csvVars, excelVars,
                   xmlVars, tableVars, callVars, sharedVars>>

----------------------------------------------------------------------------
(* ExcelParser.parse and ExcelParser._process_sheet *)

\* a sheet as pd.read_excel returns it: df.empty, rows whose cells are all
\* NaN, or rows with data
SheetKinds == {"empty", "blank", "data"}

Workbooks == UNION {[1 .. n -> SheetKinds] : n \in 0 .. MaxSheets}

StartExcel ==
    /\ pc = "idle"
    /\ backend' = "excel"
    /\ result' = NewResult
    /\ pc' = "excel_read"
    /\ UNCHANGED <<outcome, failures, pdfVars, splitVars, csvVars, excelVars,
                   xmlVars, tableVars, callVars, sharedVars>>

\* lines 39-48: openpyxl, then xlrd, then the error return
ReadExcel ==
    /\ pc = "excel_read"
    /\ \E engine \in {"openpyxl", "xlrd", "none"} :
         /\ failures' =
              failures \cup
              (IF engine = "openpyxl" THEN {}
               ELSE {[at |-> "read_excel_openpyxl", caught |-> "helper"]}) \cup
              (IF engine = "none"
               THEN {[at |-> "read_excel_xlrd", caught |-> "helper"]} ELSE {})
         /\ IF engine = "none"
            THEN /\ result' = [result EXCEPT
                                 !.errors = Append(@, "Failed to read Excel file")]
                 /\ outcome' = "result"
                 /\ pc' = "returned"
                 /\ UNCHANGED all_sheets
            ELSE /\ all_sheets' \in Workbooks
                 /\ pc' = "excel_check_sheets"
                 /\ UNCHANGED <<result, outcome>>
    /\ UNCHANGED <<backend, pdfVars, splitVars, csvVars, sheet_no, all_chunks,
                   all_tables, xmlVars, tableVars, callVars, sharedVars>>

\* lines 50-58
ExcelCheckSheets ==
    /\ pc = "excel_check_sheets"
    /\ IF Len(all_sheets) = 0
       THEN /\ result' = [result EXCEPT
                            !.errors = Append(@, "No sheets found in Excel file")]
            /\ outcome' = "result"
            /\ pc' = "returned"
            /\ UNCHANGED sheet_no
       ELSE /\ sheet_no' = 1
            /\ pc' = "excel_sheet"
            /\ UNCHANGED <<result, outcome>>
    /\ UNCHANGED <<backend, failures, pdfVars, splitVars, csvVars, all_sheets,
                   all_chunks, all_tables, xmlVars, tableVars, callVars, sharedVars>>

\* line 60 and _process_sheet lines 102-119: an empty sheet gives the empty
\* sheet result; any other sheet is cleaned, turned into text and chunked
ExcelProcessSheet ==
    /\ pc = "excel_sheet"
    /\ IF sheet_no > Len(all_sheets)
       THEN /\ pc' = "excel_finish"
            /\ UNCHANGED <<sheet_no, chunk_input>>
       ELSE IF all_sheets[sheet_no] = "empty"
            THEN /\ sheet_no' = sheet_no + 1
                 /\ UNCHANGED <<pc, chunk_input>>
            ELSE /\ \E len \in TextLens :
                      /\ (all_sheets[sheet_no] = "blank") <=> len = 0
                      /\ chunk_input' = len
                 /\ pc' = "split"
                 /\ UNCHANGED sheet_no
    /\ UNCHANGED <<backend, outcome, result, failures, pdfVars, start,
                   text_chunks, windows, csvVars, all_sheets, all_chunks, all_tables,
                   xmlVars, tableVars, callVars, sharedVars>>

\* _extract_table_from_dataframe (lines 175-176): None for an empty table
SheetTables(kind) == IF kind = "data" THEN 1 ELSE 0

\* _process_sheet lines 120-141 and parse lines 63-73
ExcelSheetDone ==
    /\ pc = "excel_sheet_done"
    /\ all_chunks' = all_chunks \o MakeChunks(text_chunks)
    /\ all_tables' = all_tables + SheetTables(all_sheets[sheet_no])
    /\ sheet_no' = sheet_no + 1
    /\ pc' = "excel_sheet"
    /\ UNCHANGED <<backend, outcome, result, failures, pdfVars, splitVars,
                   csvVars, all_sheets, xmlVars, tableVars, callVars, sharedVars>>

\* lines 75-91
ExcelFinish ==
    /\ pc = "excel_finish"
    /\ \E financial \in 0 .. all_tables :
       result' = [result EXCEPT
                    !.success = TRUE,
                    !.chunks = all_chunks,
                    !.tables = all_tables,
                    !.table_scales = UnitsScales(financial),
                    !.metadata = [present |-> TRUE, sheet_count |-> Len(all_sheets)]]
    /\ outcome' = "result"
    /\ pc' = "returned"
    /\ UNCHANGED <<backend, failures, pdfVars, splitVars, csvVars, excelVars,
                   xmlVars, tableVars, callVars, sharedVars>>

----------------------------------------------------------------------------
(* XMLParser.parse *)

\* lines 320-325: the terms that send a category's facts to a section
xbrl_asset_terms == <<<<"a", "s", "s", "e", "t">>, <<"c", "a", "s", "h">>, <<"r", "e", "c", "e", "i", "v", "a", "b", "l", "e">>, <<"i", "n", "v", "e", "n", "t", "o", "r", "y">>, <<"p", "r", "o", "p", "e", "r", "t", "y">>>>

xbrl_liability_terms == <<<<"l", "i", "a", "b", "i", "l", "i", "t", "y">>, <<"p", "a", "y", "a", "b", "l", "e">>, <<"d", "e", "b", "t">>>>

xbrl_equity_terms == <<<<"e", "q", "u", "i", "t", "y">>, <<"s", "t", "o", "c", "k", "h", "o", "l", "d", "e", "r">>, <<"r", "e", "t", "a", "i", "n", "e", "d">>>>

\* the document's context elements: id "" is a missing id attribute, entity
\* and period "" a missing child
ContextPool ==
    {[id |-> "c1", entity |-> "E1", period |-> "2023-12-31"],
     [id |-> "c1", entity |-> "", period |-> ""],
     [id |-> "", entity |-> "E1", period |-> "2023-12-31"]}

\* the document's unit elements: measure "" is a missing measure child
UnitPool ==
    {[id |-> "u1", measure |-> "iso4217:USD"], [id |-> "u1", measure |-> ""]}

\* the document's other elements: ns is the namespace of the tag ("" for
\* none, "us-gaap" for the one xbrl_namespaces binds to that prefix),
\* context_ref and unit_ref the attributes contextRef and unitRef
FactPool ==
    [ns : {"", "us-gaap"}, local : {"Assets", "Liabilities"},
     value : {"100"}, context_ref : {"c1", "zz"}, unit_ref : {"u1"}]

MaxContexts == 2

MaxUnits == 1

MaxFacts == 2

SeqsUpTo(pool, n) == UNION {[1 .. k -> pool] : k \in 0 .. n}

\* the trees ET.parse can return
XmlDocuments ==
    [xbrl_root : BOOLEAN,
     contexts : SeqsUpTo(ContextPool, MaxContexts),
     units : SeqsUpTo(UnitPool, MaxUnits),
     facts : SeqsUpTo(FactPool, MaxFacts)]

\* lines 126-142: the root's tag or attributes mention xbrl, or a child's
\* tag contains 'context', 'unit' or 'schemaref'
IsXbrlDocument(root) ==
    \/ root.xbrl_root
    \/ root.contexts # <<>>
    \/ root.units # <<>>

\* lines 217-256: contexts[context_id] = context_data for every context
\* element with an id; a later element with the same id replaces an earlier
ExtractXbrlContexts(root) ==
    LET ids == {root.contexts[i].id : i \in DOMAIN root.contexts} \ {""}
        last(id) == CHOOSE i \in DOMAIN root.contexts :
                      /\ root.contexts[i].id = id
                      /\ \A j \in DOMAIN root.contexts :
                           j > i => root.contexts[j].id # id
    IN  [id \in ids |->
           [id |-> id,
            entity |-> root.contexts[last(id)].entity,
            period |-> root.contexts[last(id)].period]]

\* lines 258-272: only a unit with an id and a measure child is kept
ExtractXbrlUnits(root) ==
    LET kept == {i \in DOMAIN root.units :
                   root.units[i].id # "" /\ root.units[i].measure # ""}
        ids == {root.units[i].id : i \in kept}
        last(id) == CHOOSE i \in kept :
                      /\ root.units[i].id = id
                      /\ \A j \in kept : j > i => root.units[j].id # id
    IN  [id \in ids |-> [id |-> id, measure |-> root.units[last(id)].measure]]

\* root.findall(path) with no namespace map: ElementPath raises
\* SyntaxError("prefix ... not found in prefix map") for a prefixed name
FindallRaises(element_name) == element_name.prefix # ""

\* line 304: root.findall(f'.//{element_name}') finds the elements in no
\* namespace, root.findall(f'.//us-gaap:{element_name}', xbrl_namespaces)
\* those in the us-gaap namespace
Findall(root, element_name) ==
    SelectSeq(root.facts,
              LAMBDA e : e.ns = "" /\ e.local = element_name.local)
    \o SelectSeq(root.facts,
                 LAMBDA e : e.ns = "us-gaap" /\ e.local = element_name.local)

\* lines 307-321: the fact of one element; 'context' and 'unit' are set
\* only when the reference is a key of the parsed contexts or units
FactData(element, element_name, contexts, units) ==
    [name |-> element_name,
     value |-> element.value,
     context_ref |-> element.context_ref,
     unit_ref |-> element.unit_ref,
     context |-> IF element.context_ref \in DOMAIN contexts
                 THEN contexts[element.context_ref] ELSE NoField,
     unit |-> IF element.unit_ref \in DOMAIN units
              THEN units[element.unit_ref] ELSE NoField]

\* lines 323-329: the section a category's facts are appended to
SectionOfCategory(category) ==
    IF ContainsAny(Lower(category), xbrl_asset_terms) THEN "assets"
    ELSE IF ContainsAny(Lower(category), xbrl_liability_terms) THEN "liabilities"
    ELSE IF ContainsAny(Lower(category), xbrl_equity_terms) THEN "equity"
    ELSE "none"

AppendFacts(data, section, facts) ==
    IF section = "none" THEN data
    ELSE [data EXCEPT ![section] = @ \o facts]

\* lines 302-329, the inner loop over one category's element names
RECURSIVE FactsOfNames(_, _, _, _, _, _)
FactsOfNames(root, contexts, units, category, element_names, data) ==
    IF element_names = <<>> THEN [raised |-> FALSE, data |-> data]
    ELSE LET element_name == Head(element_names)
         IN  IF FindallRaises(element_name)
             THEN [raised |-> TRUE, data |-> data]
             ELSE LET elements == Findall(root, element_name)
                      facts == [i \in DOMAIN elements |->
                                  FactData(elements[i], element_name,
                                           contexts, units)]
                  IN  FactsOfNames(root, contexts, units, category,
                                   Tail(element_names),
                                   AppendFacts(data,
                                               SectionOfCategory(category),
                                               facts))

\* lines 301-331, the outer loop over balance_sheet_elements
RECURSIVE FactsOfCategories(_, _, _, _, _)
FactsOfCategories(root, contexts, units, k, data) ==
    IF k > Len(balance_sheet_elements) THEN [raised |-> FALSE, data |-> data]
    ELSE LET r == FactsOfNames(root, contexts, units,
                               balance_sheet_elements[k].category,
                               balance_sheet_elements[k].element_names, data)
         IN  IF r.raised THEN r
             ELSE FactsOfCategories(root, contexts, units, k + 1, r.data)

ExtractBalanceSheetFacts(root, contexts, units) ==
    FactsOfCategories(root, contexts, units, 1, NoFacts)

\* lines 144-176: contexts, units, facts, and one table made of the facts
ParseXbrl(root) ==
    LET contexts == ExtractXbrlContexts(root)
        units == ExtractXbrlUnits(root)
        facts == ExtractBalanceSheetFacts(root, contexts, units)
    IN  [raised |-> facts.raised,
         data |-> [is_xbrl |-> TRUE, tables |-> 1,
                   balance_sheet_data |-> facts.data]]

\* lines 178-212: the plain path produces no table; the items it collects
\* from the tags are not modelled
ParseRegularXml(root) ==
    [raised |-> FALSE,
     data |-> [is_xbrl |-> FALSE, tables |-> 0, balance_sheet_data |-> NoFacts]]

StartXml ==
    /\ pc = "idle"
    /\ backend' = "xml"
    /\ result' = NewResult
    /\ pc' = "xml_parse"
    /\ UNCHANGED <<outcome, failures, pdfVars, splitVars, csvVars, excelVars,
                   xmlVars, tableVars, callVars, sharedVars>>

\* lines 72-85: the tree is parsed and sniffed, the XBRL or the plain path
\* runs, and the tree is serialised; the text has at least the root's tag.
\* An exception of the XBRL path reaches the handler of lines 119-124.
XmlParse ==
    /\ pc = "xml_parse"
    /\ \E root \in XmlDocuments :
       \E len \in TextLens \ {0} :
         LET parsed == IF IsXbrlDocument(root) THEN ParseXbrl(root)
                       ELSE ParseRegularXml(root)
         IN  /\ xml_root' = root
             /\ IF parsed.raised
                THEN /\ failures' = failures \cup
                                      {[at |-> "xml_extract_facts", caught |-> "top"]}
                     /\ result' = TopLevelExcept(backend)
                     /\ outcome' = "result"
                     /\ pc' = "returned"
                     /\ UNCHANGED <<parsed_data, chunk_input>>
                ELSE /\ parsed_data' = parsed.data
                     /\ chunk_input' = len
                     /\ pc' = "split"
                     /\ UNCHANGED <<failures, result, outcome>>
    /\ UNCHANGED <<backend, pdfVars, start, text_chunks, windows, csvVars,
                   excelVars, tableVars, callVars, sharedVars>>

\* lines 100-117
XmlFinish ==
    /\ pc = "xml_finish"
    /\ \E xml_text \in ScaleTexts :
       result' = [result EXCEPT
                    !.success = TRUE,
                    !.chunks = MakeChunks(text_chunks),
                    !.tables = parsed_data.tables,
                    !.table_scales = UnitsScales(parsed_data.tables),
                    !.metadata = [present |-> TRUE,
                                  is_xbrl |-> parsed_data.is_xbrl,
                                  balance_sheet_data |->
                                      parsed_data.balance_sheet_data,
                                  scale |-> ScaleOfText[xml_text]]]
    /\ outcome' = "result"
    /\ pc' = "returned"
    /\ UNCHANGED <<backend, failures, pdfVars, splitVars, csvVars, excelVars,
                   xmlVars, tableVars, callVars, sharedVars>>

----------------------------------------------------------------------------

Next ==
    \/ StartPdf
    \/ ExtractWithPdfplumber
    \/ ExtractWithPypdf2
    \/ ExtractWithOcr
    \/ PdfCheckText
    \/ PdfClean
    \/ Split
    \/ SplitLoop
    \/ PdfFinish
    \/ RaiseTopLevel
    \/ StartCsv
    \/ ReadCsvAttempt
    \/ CsvCheckDf
    \/ CsvClean
    \/ CsvFinish
    \/ StartExcel
    \/ ReadExcel
    \/ ExcelCheckSheets
    \/ ExcelProcessSheet
    \/ ExcelSheetDone
    \/ ExcelFinish
    \/ StartXml
    \/ XmlParse
    \/ XmlFinish

Spec == Init /\ [][Next]_vars

----------------------------------------------------------------------------
(* CSVParser.parse after _clean_dataframe (lines 49-93), on a table given  *)
(* cell by cell.                                                           *)

InitCsvTable ==
    /\ ParseIdle
    /\ df_cleaned \in Tables
    /\ table_pc = "cleaned"
    /\ table_data = [present |-> FALSE]
    /\ balance_sheet_items = NoItems
    /\ structure_analysis = NoAnalysis
    /\ CallIdle
    /\ SharedIdle

\* line 68: table_data = self._extract_table_from_dataframe(df_cleaned)
CsvExtractTable ==
    /\ table_pc = "cleaned"
    /\ table_data' = ExtractTableFromDataframe(df_cleaned)
    /\ table_pc' = "table"
    /\ UNCHANGED <<df_cleaned, balance_sheet_items, structure_analysis>>
    /\ UNCHANGED <<parseVars, callVars, sharedVars>>

\* lines 74-77: balance_sheet_items and structure_analysis of the metadata
CsvAnalyzeTable ==
    /\ table_pc = "table"
    /\ balance_sheet_items' = ExtractBalanceSheetFromDataframe(df_cleaned)
    /\ structure_analysis' = AnalyzeCsvStructure(df_cleaned)
    /\ table_pc' = "analysed"
    /\ UNCHANGED <<df_cleaned, table_data>>
    /\ UNCHANGED <<parseVars, callVars, sharedVars>>

NextCsvTable ==
    \/ CsvExtractTable
    \/ CsvAnalyzeTable

SpecCsvTable == InitCsvTable /\ [][NextCsvTable]_vars

----------------------------------------------------------------------------
(* Properties of parse() *)

Returned == pc = "returned"

TopLevelFailure == \E f \in failures : f.caught = "top"

Range(q) == {q[i] : i \in DOMAIN q}

\* C1 as stated: parse() returns a ParsingResult, no exception escapes, and
\* any internal failure raised at any step gives success=false with a
\* non-empty errors list.
C1_AnyFailureFails ==
    Returned =>
        /\ outcome = "result"
        /\ failures # {} => (~result.success /\ Len(result.errors) > 0)

\* C1 amended: parse() returns a ParsingResult and no exception escapes; a
\* failure that reaches the top-level handler of parse() gives success=false
\* with a non-empty errors list (a failure absorbed by a helper's own handler
\* or by a fallback does not by itself make the parse fail).
C1_TopLevelFailureFails ==
    Returned =>
        /\ outcome = "result"
        /\ TopLevelFailure => (~result.success /\ Len(result.errors) > 0)

C1_Witness ==
    /\ Returned
    /\ TopLevelFailure
    /\ \E f \in failures : f.caught = "helper"

\* C2: in every returned ParsingResult a non-empty errors list implies
\* success=false.
C2_ErrorsImplyFailure ==
    (Returned /\ outcome = "result") =>
        (Len(result.errors) > 0 => ~result.success)

C2_Witness ==
    /\ Returned
    /\ backend = "pdf"
    /\ ~TopLevelFailure
    /\ Len(result.errors) > 0

\* C3 as stated: every returned ParsingResult with success=true has at least
\* one chunk or at least one table.
C3_SuccessHasContent ==
    (Returned /\ outcome = "result" /\ result.success) =>
        (Len(result.chunks) > 0 \/ result.tables > 0)

\* C4: the PDF text-extraction methods are called in the order pdfplumber,
\* PyPDF2, OCR; PyPDF2 only after pdfplumber yielded fewer than 100 stripped
\* characters, OCR only after both yielded fewer than 100, and no method is
\* called after one that yielded at least 100.
C4_FallbackChainOrder ==
    /\ Len(yielded) <= Len(Methods)
    /\ \A i \in DOMAIN yielded : yielded[i].src = Methods[i]
    /\ \A i, j \in DOMAIN yielded : i < j => yielded[i].slen < MinChars

C4_Witness ==
    /\ Returned
    /\ Len(yielded) = 3
    /\ yielded[3].src = "ocr"
    /\ yielded[3].slen >= MinChars

\* C5 as stated: the extraction_method metadata of a successful PDF parse
\* names the method whose output became the final text.
C5_MethodNamesFinalText ==
    (Returned /\ backend = "pdf" /\ outcome = "result" /\ result.success) =>
        result.metadata.extraction_method = text_content.src

\* C6 as stated: when some text-extraction method produced non-empty text
\* below the threshold (and nothing failed at the top level), the PDF parse
\* returns success=true.
C6_PartialIsSuccess ==
    (/\ Returned
     /\ backend = "pdf"
     /\ ~TopLevelFailure
     /\ \E i \in DOMAIN yielded : yielded[i].slen > 0 /\ yielded[i].slen < MinChars)
    => result.success

\* C7: a returned PDF result whose text was supplied by OCR carries the OCR
\* warning.  (A parse that the top-level handler ended returns no text.)
C7_OcrTextHasWarning ==
    (/\ Returned
     /\ backend = "pdf"
     /\ ~TopLevelFailure
     /\ text_content.src = "ocr"
     /\ text_content.len > 0)
    => /\ result.success
       /\ OcrWarning \in Range(result.warnings)

C7_Witness ==
    /\ Returned
    /\ backend = "pdf"
    /\ result.success
    /\ text_content.src = "ocr"
    /\ text_content.slen < MinChars

\* what the i-th listed read attempt does on the file being parsed
AttemptOutcome(i) ==
    csv_file[Effective(clean_params(read_attempts(encoding)[i]))]

\* the listed order of (encoding, separator, error tolerance)
ListedOrder(enc) ==
    << <<enc, ",", "absent">>, <<enc, ";", "absent">>, <<enc, "\t", "absent">>,
       <<"latin-1", ",", "absent">>, <<enc, "absent", "absent">>,
       <<enc, ",", "False">> >>

UsableAttempts == {i \in 1 .. 6 : AttemptOutcome(i) = "ok"}

\* C8: the CSV reader issues its attempts in the listed order and returns the
\* table of the first attempt that yields a non-empty table with more than
\* one column, issuing no attempt after it; when no attempt does, parse()
\* returns success=false with an error and no chunks.
C8_FirstUsableWins ==
    backend = "csv" =>
        /\ \A k \in DOMAIN attempts :
               <<attempts[k].encoding, attempts[k].sep, attempts[k].error_bad_lines>>
                   = ListedOrder(encoding)[k]
        /\ pc # "csv_read" =>
               IF UsableAttempts # {}
               THEN /\ df.attempt = CHOOSE i \in UsableAttempts :
                                        \A j \in UsableAttempts : i <= j
                    /\ Len(attempts) = df.attempt
               ELSE /\ df.kind = "None"
                    /\ Len(attempts) = 6
                    /\ Returned => /\ ~result.success
                                   /\ Len(result.errors) > 0
                                   /\ result.chunks = <<>>

C8_Witness ==
    /\ Returned
    /\ backend = "csv"
    /\ result.success
    /\ df.attempt = 3
    /\ AttemptOutcome(1) = "onecol"
    /\ AttemptOutcome(2) = "raise"
    /\ AttemptOutcome(6) = "ok"

\* C9 as stated: within one parse call no PDF text-extraction method runs
\* twice and no two CSV read attempts have the same effective parameters.
C9_EachFallbackOnce ==
    /\ \A i, j \in DOMAIN yielded : i < j => yielded[i].src # yielded[j].src
    /\ \A i, j \in DOMAIN attempts :
           i < j => Effective(attempts[i]) # Effective(attempts[j])

----------------------------------------------------------------------------
(* BaseParser.detect_table_structure (lines 232-261) *)

\* text.split('\n')
RECURSIVE SplitLines(_)
SplitLines(text) ==
    IF \E i \in DOMAIN text : text[i] = "\n"
    THEN LET i == CHOOSE i \in DOMAIN text :
                      /\ text[i] = "\n"
                      /\ \A j \in 1 .. (i - 1) : text[j] # "\n"
         IN  <<SubSeq(text, 1, i - 1)>> \o SplitLines(SubSeq(text, i + 1, Len(text)))
    ELSE <<text>>

MinRowFigures == 2
MinTableRows == 3

\* line 242: the line counts as a table row
IsTableRow(line) == Len(extract_financial_figures(line)) >= MinRowFigures

\* lines 248-252: the rows collected so far are a table, or are dropped
CloseTable(current_table) ==
    IF Len(current_table) >= MinTableRows
    THEN << [rows |-> current_table, row_count |-> Len(current_table)] >>
    ELSE <<>>

\* lines 254-259: "Don't forget the last table"
LastTable_Forgotten(current_table) == <<>>
LastTable(current_table) == CloseTable(current_table)

\* lines 238-253: the loop over the lines, from line k on
RECURSIVE ScanLines(_, _, _)
ScanLines(lines, k, current_table) ==
    IF k > Len(lines) THEN LastTable(current_table)
    ELSE IF IsTableRow(lines[k])
         THEN ScanLines(lines, k + 1,
                        Append(current_table,
                               [text |-> Strip(lines[k]),
                                amounts |-> extract_financial_figures(lines[k])]))
         ELSE CloseTable(current_table) \o ScanLines(lines, k + 1, <<>>)

detect_table_structure(text) == ScanLines(SplitLines(text), 1, <<>>)

----------------------------------------------------------------------------
(* Calls of the text functions of the parsers, each on an argument of a    *)
(* bounded set.                                                            *)

MaxLines == 7

\* labels handed to _categorize_balance_sheet_item: a phrase, or two
\* phrases separated by a blank
Phrases ==
    << <<"C", "a", "s", "h", " ", "a", "n", "d", " ", "c", "a", "s", "h", " ", "e", "q", "u", "i", "v", "a", "l", "e", "n", "t", "s">>,
       <<"A", "c", "c", "o", "u", "n", "t", "s", " ", "p", "a", "y", "a", "b", "l", "e">>,
       <<"x", "y", "z", "1", "2", "3">>,
       <<"I", "n", "v", "e", "n", "t", "o", "r", "y">>,
       <<"L", "o", "n", "g", "-", "t", "e", "r", "m", " ", "d", "e", "b", "t">>,
       <<"R", "e", "t", "a", "i", "n", "e", "d", " ", "e", "a", "r", "n", "i", "n", "g", "s">>,
       <<"C", "o", "m", "m", "o", "n", " ", "s", "t", "o", "c", "k">>,
       <<"T", "o", "t", "a", "l", " ", "a", "s", "s", "e", "t", "s">>,
       <<"A", "c", "c", "r", "u", "e", "d", " ", "l", "i", "a", "b", "i", "l", "i", "t", "y">>,
       <<"C", "a", "p", "i", "t", "a", "l">>,
       <<"c", "a", "s", "h">>,
       <<"p", "a", "y", "a", "b", "l", "e", "s">>,
       <<"A", "c", "c", "r", "u", "e", "d", " ", "e", "x", "p", "e", "n", "s", "e", "s">>,
       <<"I", "n", "v", "e", "s", "t", "m", "e", "n", "t", " ", "i", "n", " ", "a", "s", "s", "o", "c", "i", "a", "t", "e", "s">> >>

Labels ==
    {Phrases[a] : a \in DOMAIN Phrases}
    \cup {Phrases[a] \o <<" ">> \o Phrases[b] : a, b \in DOMAIN Phrases}

\* texts handed to extract_financial_figures: one or two pieces, adjacent
\* or separated by a blank
Pieces ==
    << <<"$", "1", ",", "2", "3", "4", ".", "5", "6">>,
       <<"a", "b", "c">>,
       <<"€", " ", "5", "0">>,
       <<"£", "7", ".", "5">>,
       <<"1", "0", "0", "0">>,
       <<",">>,
       <<",", ".", "1", "2">>,
       <<"$">> >>

FigureTexts ==
    {Pieces[a] : a \in DOMAIN Pieces}
    \cup {Pieces[a] \o sep \o Pieces[b] :
            a, b \in DOMAIN Pieces, sep \in {<<>>, <<" ">>}}

\* texts handed to detect_table_structure: up to MaxLines lines of the pool
LinePool ==
    << <<"1", " ", "2">>,
       <<" ", "$", "5", " ">>,
       <<>> >>

LineTexts ==
    UNION {{Join([i \in 1 .. n |-> LinePool[choice[i]]], <<"\n">>) :
              choice \in [1 .. n -> DOMAIN LinePool]} : n \in 1 .. MaxLines}

\* pathlib: the final component of a path
PathName(path) ==
    IF \E i \in DOMAIN path : path[i] = "/"
    THEN SubSeq(path, 1 + CHOOSE i \in DOMAIN path :
                              /\ path[i] = "/"
                              /\ \A j \in DOMAIN path : j > i => path[j] # "/",
                Len(path))
    ELSE path

\* pathlib Path.suffix: the name from its last dot on, or '' when the name
\* has no dot, starts with its only dot or ends with a dot
PathSuffix(path) ==
    LET name == PathName(path)
        dots == {i \in DOMAIN name : name[i] = "."}
    IN  IF dots = {} THEN <<>>
        ELSE LET i == CHOOSE d \in dots : \A e \in dots : e <= d
             IN  IF 1 < i /\ i < Len(name) THEN SubSeq(name, i, Len(name))
                 ELSE <<>>

\* the suffix compared as it is written
SuffixLower_AsWritten(path) == PathSuffix(path)

\* file_path.suffix.lower()
SuffixLower(path) == Lower(PathSuffix(path))

Backends == {"pdf", "csv", "excel", "xml"}

\* the suffixes each can_parse compares with
accepted_suffixes ==
    [b \in Backends |->
       CASE b = "pdf" -> {<<".", "p", "d", "f">>}
         [] b = "csv" -> {<<".", "c", "s", "v">>}
         [] b = "excel" -> {<<".", "x", "l", "s", "x">>, <<".", "x", "l", "s">>}
         [] b = "xml" -> {<<".", "x", "m", "l">>, <<".", "x", "b", "r", "l">>}]

\* can_parse of the four back-ends: the file is not opened
can_parse(b, file_path) == SuffixLower(file_path) \in accepted_suffixes[b]

\* the paths handed to can_parse: a stem followed by an ending
PathStems ==
    {<<"a">>,
     <<"d", "i", "r", "/", "a">>,
     <<"a", ".", "b">>,
     <<>>,
     <<".">>,
     <<"x", ".", "c", "s", "v", "/", "a">>}

PathEndings ==
    {<<".", "c", "s", "v">>,
     <<".", "C", "S", "V">>,
     <<".", "x", "l", "s", "x">>,
     <<".", "x", "l", "s">>,
     <<".", "X", "l", "s">>,
     <<".", "p", "d", "f">>,
     <<".", "P", "D", "F">>,
     <<".", "x", "m", "l">>,
     <<".", "x", "b", "r", "l">>,
     <<".", "X", "B", "R", "L">>,
     <<".", "t", "x", "t">>,
     <<>>,
     <<"c", "s", "v">>,
     <<".", "c", "s", "v", "x">>,
     <<".", "x", "l", "s", "x", "x">>,
     <<".">>}

FilePaths == {stem \o ending : stem \in PathStems, ending \in PathEndings}

\* models/balance_sheet.py, class BalanceSheet.  A Decimal total is kept in
\* hundredths.

\* the total fields the two validators touch, in declaration order
\* (lines 166, 172, 176, 179)
balance_sheet_fields ==
    <<"total_assets", "total_liabilities", "total_equity",
      "total_liabilities_and_equity">>

\* Decimal("0.01"), line 198
Tolerance == 1

\* abs(d)
Abs(d) == IF d < 0 THEN 0 - d ELSE d

\* values.get(key, Decimal("0")): values holds the fields validated so far
ValuesGet(values, key) == IF key \in DOMAIN values THEN values[key] ELSE 0

\* lines 189-193
calculate_total_liabilities_and_equity(v, values) ==
    ValuesGet(values, "total_liabilities") + ValuesGet(values, "total_equity")

\* lines 195-200: whether the validator raises ValueError
validate_balance_sheet_equation_raises(v, values) ==
    Abs(v - ValuesGet(values, "total_liabilities_and_equity")) > Tolerance

\* a keyword argument of the construction: <<>> when it is left out, and the
\* field's default Decimal("0") is taken
FieldInput(supplied, name) ==
    IF supplied[name] = <<>> THEN 0 ELSE supplied[name][1]

\* the fields are validated in declaration order; each validator is handed
\* the fields validated before its own, and a field whose validator raised
\* is left out of values
RECURSIVE ValidateFields(_, _, _, _)
ValidateFields(supplied, k, values, errors) ==
    IF k > Len(balance_sheet_fields)
    THEN [accepted |-> errors = {}, values |-> values, errors |-> errors]
    ELSE LET name == balance_sheet_fields[k]
             v == FieldInput(supplied, name)
             validated ==
                 IF name = "total_liabilities_and_equity"
                 THEN calculate_total_liabilities_and_equity(v, values)
                 ELSE v
         IN  IF name = "total_assets"
                /\ validate_balance_sheet_equation_raises(v, values)
             THEN ValidateFields(supplied, k + 1, values, errors \cup {name})
             ELSE ValidateFields(supplied, k + 1,
                                 [n \in DOMAIN values \cup {name} |->
                                     IF n = name THEN validated ELSE values[n]],
                                 errors)

\* BalanceSheet(company=..., period=..., **supplied)
ConstructBalanceSheet(supplied) ==
    ValidateFields(supplied, 1, [n \in {} |-> 0], {})

\* the totals handed to the construction, each either left out or given
SuppliedTotals ==
    [total_assets : {<<>>, <<0>>, <<1>>, <<2>>, <<10000>>},
     total_liabilities : {<<>>, <<0>>, <<6000>>},
     total_equity : {<<>>, <<0>>, <<1>>, <<4000>>, <<4001>>, <<4002>>},
     total_liabilities_and_equity : {<<>>, <<0>>, <<10000>>}]

\* the XBRL documents handed to the fact extraction
FactDocuments ==
    [xbrl_root : {TRUE},
     contexts : SeqsUpTo(ContextPool, 1),
     units : {<<>>},
     facts : SeqsUpTo(FactPool, MaxFacts)]

Calls ==
    {[fn |-> "_categorize_balance_sheet_item", arg |-> l] : l \in Labels}
    \cup {[fn |-> "ExcelParser._categorize_balance_sheet_item", arg |-> l] :
              l \in Labels}
    \cup {[fn |-> "PDFParser._categorize_line_item", arg |-> l] : l \in Labels}
    \cup {[fn |-> "extract_financial_figures", arg |-> t] : t \in FigureTexts}
    \cup {[fn |-> "detect_table_structure", arg |-> t] : t \in LineTexts}
    \cup {[fn |-> "can_parse",
            arg |-> [backend |-> b, file_path |-> f, exists |-> e]] :
              b \in Backends, f \in FilePaths, e \in BOOLEAN}
    \cup {[fn |-> "_extract_balance_sheet_facts",
            arg |-> [root |-> r, category |-> k]] :
              r \in FactDocuments, k \in DOMAIN balance_sheet_elements}
    \cup {[fn |-> "BalanceSheet", arg |-> t] : t \in SuppliedTotals}

InitFunctions ==
    /\ ParseIdle
    /\ TableIdle
    /\ fn_call \in Calls
    /\ fn_return = NotReturned
    /\ SharedIdle

Returns(fn, value) ==
    /\ fn_call.fn = fn
    /\ ~fn_return.done
    /\ fn_return' = [done |-> TRUE, value |-> value]
    /\ UNCHANGED <<fn_call, parseVars, tableVars, sharedVars>>

CategorizeItem ==
    Returns("_categorize_balance_sheet_item",
            CategorizeBalanceSheetItem(fn_call.arg))

ExtractFigures ==
    Returns("extract_financial_figures", extract_financial_figures(fn_call.arg))

DetectTables ==
    Returns("detect_table_structure", detect_table_structure(fn_call.arg))

CanParse ==
    Returns("can_parse", can_parse(fn_call.arg.backend, fn_call.arg.file_path))

\* xml_parser.py lines 304-331: the pass of the loop of line 303 for one
\* category of balance_sheet_elements, started with empty buckets; what is
\* returned is whether the pass raised and the buckets it had filled
ExtractCategoryFacts ==
    LET root == fn_call.arg.root
        entry == balance_sheet_elements[fn_call.arg.category]
    IN  Returns("_extract_balance_sheet_facts",
                FactsOfNames(root, ExtractXbrlContexts(root),
                             ExtractXbrlUnits(root), entry.category,
                             entry.element_names, NoFacts))

ExcelCategorizeItem ==
    Returns("ExcelParser._categorize_balance_sheet_item",
            ExcelCategorizeBalanceSheetItem(fn_call.arg))

PdfCategorizeItem ==
    Returns("PDFParser._categorize_line_item", PdfCategorizeLineItem(fn_call.arg))

BalanceSheetInit ==
    Returns("BalanceSheet", ConstructBalanceSheet(fn_call.arg))

NextFunctions ==
    \/ BalanceSheetInit
    \/ CanParse
    \/ ExcelCategorizeItem
    \/ PdfCategorizeItem
    \/ ExtractCategoryFacts
    \/ CategorizeItem
    \/ ExtractFigures
    \/ DetectTables

SpecFunctions == InitFunctions /\ [][NextFunctions]_vars

----------------------------------------------------------------------------
(* Two calls on one parser instance.  A call keeps its position and what   *)
(* it has collected in locals; the tables it walks are attributes of self. *)

Threads == {1, 2}

\* the texts and labels handed to the two calls
SharedTexts == {Pieces[a] : a \in DOMAIN Pieces}

SharedLabels == {Phrases[a] : a \in DOMAIN Phrases}

SharedCalls ==
    {[fn |-> "extract_financial_figures", arg |-> t] : t \in SharedTexts}
    \cup {[fn |-> "_categorize_balance_sheet_item", arg |-> l] : l \in SharedLabels}

\* a call that has not taken a step: step is the table or pattern it is at,
\* figures the local list of extract_financial_figures, overlapped whether
\* it took a step while the other call was under way
NewThread(call) ==
    [fn |-> call.fn, arg |-> call.arg, step |-> 1, figures |-> <<>>,
     overlapped |-> FALSE, ret |-> NotReturned]

InitShared ==
    /\ ParseIdle
    /\ TableIdle
    /\ CallIdle
    /\ instance = NewInstance
    /\ threads \in {[t \in Threads |-> NewThread(call[t])] :
                       call \in [Threads -> SharedCalls]}

UnderWay(t) == threads[t].step > 1 /\ ~threads[t].ret.done

Overlaps(t) ==
    threads[t].overlapped \/ \E o \in Threads \ {t} : UnderWay(o)

\* a helper that consumes the table of self it walks
SelfAfterStep_Consumes(self, step) ==
    [self EXCEPT !.currency_patterns = SubSeq(@, 1, Len(@) - 1)]

\* self after a step of a helper: no helper assigns an attribute of self or
\* changes one of its tables (the tables are only iterated)
SelfAfterStep(self, step) == self

\* base_parser.py lines 136-151: one pass of the loop over
\* self.currency_patterns
FiguresStep(t) ==
    /\ threads[t].fn = "extract_financial_figures"
    /\ ~threads[t].ret.done
    /\ threads[t].step <= Len(instance.currency_patterns)
    /\ LET pattern == instance.currency_patterns[threads[t].step]
           found == FiguresOf(FindAll(pattern.symbol, threads[t].arg, 1),
                              pattern.currency)
       IN  threads' = [threads EXCEPT
                         ![t].figures = @ \o found,
                         ![t].step = @ + 1,
                         ![t].overlapped = Overlaps(t)]
    /\ instance' = SelfAfterStep(instance, threads[t].step)
    /\ UNCHANGED <<parseVars, tableVars, callVars>>

\* base_parser.py line 153
FiguresReturn(t) ==
    /\ threads[t].fn = "extract_financial_figures"
    /\ ~threads[t].ret.done
    /\ threads[t].step > Len(instance.currency_patterns)
    /\ threads' = [threads EXCEPT
                     ![t].ret = [done |-> TRUE, value |-> threads[t].figures],
                     ![t].overlapped = Overlaps(t)]
    /\ UNCHANGED <<instance, parseVars, tableVars, callVars>>

\* the table the classifier walks at a step, with the prefix of its result
ClassifierTables(self) ==
    << [patterns |-> self.asset_patterns, prefix |-> "asset_"],
       [patterns |-> self.liability_patterns, prefix |-> "liability_"],
       [patterns |-> self.equity_patterns, prefix |-> "equity_"] >>

\* csv_parser.py lines 370-383: one of the three loops over the tables of
\* self; the first pattern found returns
CategorizeStep(t) ==
    /\ threads[t].fn = "_categorize_balance_sheet_item"
    /\ ~threads[t].ret.done
    /\ threads[t].step <= Len(ClassifierTables(instance))
    /\ LET table == ClassifierTables(instance)[threads[t].step]
           category == FirstCategory(table.patterns, Lower(threads[t].arg))
       IN  threads' = [threads EXCEPT
                         ![t].step = @ + 1,
                         ![t].overlapped = Overlaps(t),
                         ![t].ret = IF category # ""
                                    THEN [done |-> TRUE,
                                          value |-> table.prefix \o category]
                                    ELSE @]
    /\ instance' = SelfAfterStep(instance, threads[t].step)
    /\ UNCHANGED <<parseVars, tableVars, callVars>>

\* csv_parser.py lines 385-393: the keyword fallback
CategorizeFallback(t) ==
    /\ threads[t].fn = "_categorize_balance_sheet_item"
    /\ ~threads[t].ret.done
    /\ threads[t].step > Len(ClassifierTables(instance))
    /\ LET item_lower == Lower(threads[t].arg)
           value == IF ContainsAny(item_lower, general_asset_terms)
                    THEN "asset_other"
                    ELSE IF ContainsAny(item_lower, general_liability_terms)
                    THEN "liability_other"
                    ELSE IF ContainsAny(item_lower, general_equity_terms)
                    THEN "equity_other"
                    ELSE "unknown"
       IN  threads' = [threads EXCEPT
                         ![t].ret = [done |-> TRUE, value |-> value],
                         ![t].overlapped = Overlaps(t)]
    /\ UNCHANGED <<instance, parseVars, tableVars, callVars>>

NextShared ==
    \/ \E t \in Threads : FiguresStep(t)
    \/ \E t \in Threads : FiguresReturn(t)
    \/ \E t \in Threads : CategorizeStep(t)
    \/ \E t \in Threads : CategorizeFallback(t)

SpecShared == InitShared /\ [][NextShared]_vars

----------------------------------------------------------------------------
(* Properties of the CSV structure analysis *)

\* the CSV of the scenario: header Item,2023,2022 and the first three rows
ScenarioTable ==
    [columns |-> HeaderPool[1], rows |-> PickRows(1, {1, 2, 3}, 3)]

ScenarioAnalysed == table_pc = "analysed" /\ df_cleaned = ScenarioTable

HasCategory(items, category) ==
    \E i \in DOMAIN items : items[i].category = category

\* C10: parsing the CSV with header Item,2023,2022 and the rows
\* 'Cash and equivalents,1000,900', 'Accounts payable,500,450' and
\* 'Total assets,1500,1350' yields a structure analysis with
\* confidence_score > 0.3 and likely_balance_sheet = true, at least one line
\* item categorized asset_cash_and_equivalents and at least one categorized
\* liability_accounts_payable.
C10_ScenarioIsLikelyBalanceSheet ==
    ScenarioAnalysed =>
        /\ structure_analysis.confidence_score > LikelyPercent
        /\ structure_analysis.likely_balance_sheet
        /\ HasCategory(balance_sheet_items.assets, "asset_cash_and_equivalents")
        /\ HasCategory(balance_sheet_items.liabilities, "liability_accounts_payable")

TableAnalysed == table_pc = "analysed" /\ ~IsEmptyTable(df_cleaned)

\* the signals of the structure analysis as read off the analysed table and
\* the fields of the analysis
KeywordHits ==
    Cardinality({k \in DOMAIN bs_terms :
                    Contains(Lower(DataframeToText(df_cleaned)), bs_terms[k])})

SectionRows ==
    Cardinality({r \in DOMAIN df_cleaned.rows : SectionOf(df_cleaned.rows[r]) # ""})

WeightedSum ==
    TermScore * KeywordHits
    + (IF structure_analysis.time_series THEN DateColumnsScore ELSE 0)
    + (IF structure_analysis.structure_type = "balance_sheet" THEN LineItemsScore ELSE 0)
    + (IF SectionRows >= MinSections THEN SectionsScore ELSE 0)

\* C11: for every non-empty table analysed by the CSV structure analysis,
\* confidence_score is the weighted signal sum divided by 100 and clamped to
\* [0,1] (hundredths: clamped to 0..100), and the returned
\* likely_balance_sheet flag is true if and only if confidence_score > 0.3,
\* whatever the line-item count signal had set the flag to.
C11_ConfidenceAndFlag ==
    TableAnalysed =>
        /\ structure_analysis.confidence_score \in 0 .. 100
        /\ structure_analysis.confidence_score =
               (IF WeightedSum > 100 THEN 100 ELSE WeightedSum)
        /\ structure_analysis.likely_balance_sheet
               <=> (structure_analysis.confidence_score > 30)

\* a table with at least 5 line items (the intermediate flag was set) whose
\* confidence is not above 0.3
C11_Witness ==
    /\ TableAnalysed
    /\ structure_analysis.structure_type = "balance_sheet"
    /\ structure_analysis.confidence_score <= 30
    /\ ~structure_analysis.likely_balance_sheet

----------------------------------------------------------------------------
(* Properties of the text functions *)

Categorized ==
    fn_call.fn = "_categorize_balance_sheet_item" /\ fn_return.done

\* some pattern of the i-th category of the table is found in s
MatchesCategory(table, i, s) ==
    \E k \in DOMAIN table[i].patterns : Search(table[i].patterns[k], s)

MatchesNone(table, s) ==
    \A i \in DOMAIN table : ~MatchesCategory(table, i, s)

\* the i-th category is the first of the table with a pattern found in s
FirstMatching(table, i, s) ==
    /\ MatchesCategory(table, i, s)
    /\ \A j \in 1 .. (i - 1) : ~MatchesCategory(table, j, s)

\* C12: the category classifier tests a label against the asset pattern
\* lists first, then the liability lists, then the equity lists, and returns
\* the category of the first matching pattern, so a label matching both an
\* asset pattern and a liability or equity pattern is an asset; with no
\* specific match it falls back to the coarse asset / liability / equity
\* keyword lists in that order and otherwise returns 'unknown'.
\* 'Cash and cash equivalents' -> asset_cash_and_equivalents,
\* 'Accounts payable' -> liability_accounts_payable, 'xyz123' -> unknown.
C12_ClassifierOrder ==
    Categorized =>
        LET s == Lower(fn_call.arg)
            v == fn_return.value
        IN  /\ \A i \in DOMAIN asset_patterns :
                   FirstMatching(asset_patterns, i, s)
                       => v = "asset_" \o asset_patterns[i].category
            /\ MatchesNone(asset_patterns, s) =>
                   \A i \in DOMAIN liability_patterns :
                       FirstMatching(liability_patterns, i, s)
                           => v = "liability_" \o liability_patterns[i].category
            /\ MatchesNone(asset_patterns, s) /\ MatchesNone(liability_patterns, s) =>
                   \A i \in DOMAIN equity_patterns :
                       FirstMatching(equity_patterns, i, s)
                           => v = "equity_" \o equity_patterns[i].category
            /\ ( /\ MatchesNone(asset_patterns, s)
                 /\ MatchesNone(liability_patterns, s)
                 /\ MatchesNone(equity_patterns, s) ) =>
                   v = IF ContainsAny(s, general_asset_terms) THEN "asset_other"
                       ELSE IF ContainsAny(s, general_liability_terms)
                            THEN "liability_other"
                       ELSE IF ContainsAny(s, general_equity_terms)
                            THEN "equity_other"
                       ELSE "unknown"
            /\ fn_call.arg = <<"C", "a", "s", "h", " ", "a", "n", "d", " ", "c", "a", "s", "h", " ", "e", "q", "u", "i", "v", "a", "l", "e", "n", "t", "s">>
                   => v = "asset_cash_and_equivalents"
            /\ fn_call.arg = <<"A", "c", "c", "o", "u", "n", "t", "s", " ", "p", "a", "y", "a", "b", "l", "e">>
                   => v = "liability_accounts_payable"
            /\ fn_call.arg = <<"x", "y", "z", "1", "2", "3">> => v = "unknown"

\* a label with both an asset pattern and a liability pattern in it
C12_Witness ==
    /\ Categorized
    /\ ~MatchesNone(asset_patterns, Lower(fn_call.arg))
    /\ ~MatchesNone(liability_patterns, Lower(fn_call.arg))
    /\ fn_return.value = "asset_cash_and_equivalents"

FiguresExtracted ==
    fn_call.fn = "extract_financial_figures" /\ fn_return.done

\* the positions of text where the symbol stands, blanks may follow, and a
\* numeral with at least one digit (in it or in its two decimals) comes next
SymbolSites(text, symbol) ==
    {i \in DOMAIN text :
        /\ text[i] = symbol
        /\ \E k \in (i + 1) .. Len(text) :
              /\ \A x \in (i + 1) .. (k - 1) : IsSpace(text[x])
              /\ IsNumeralChar(text[k])
              /\ LET e == NumeralEnd(text, k)
                 IN  \/ \E d \in k .. e : IsDigit(text[d])
                     \/ /\ e + 3 <= Len(text)
                        /\ text[e + 1] = "."
                        /\ IsDigit(text[e + 2])
                        /\ IsDigit(text[e + 3])}

CurrencyRank(currency) ==
    CASE currency = "USD" -> 1 [] currency = "EUR" -> 2 [] OTHER -> 3

\* C13: extract_financial_figures applies the currency-symbol patterns
\* ($, EUR sign, GBP sign) before the generic numeral pattern and
\* concatenates the matches of all patterns without deduplication: every
\* symbol-pattern figure precedes every generic-pattern figure, a symbol match
\* carries that symbol's currency, a generic match carries USD, and a numeral
\* preceded by a currency symbol is emitted once per pattern that matches
\* it.  For '$1,234.56' every returned figure has amount 1234.56 and currency
\* USD; for 'abc' the result is the empty list.
C13_SymbolsBeforeGeneric ==
    FiguresExtracted =>
        LET text == fn_call.arg
            out == fn_return.value
            generic == FiguresOf(FindAll("", text, 1), "USD")
            n == Len(out)
            s == Len(out) - Len(generic)
            WithCurrency(c) == {i \in 1 .. s : out[i].currency = c}
        IN  /\ s >= 0
            /\ SubSeq(out, s + 1, n) = generic
            /\ \A i \in (s + 1) .. n : out[i].currency = "USD"
            /\ \A i, j \in 1 .. s :
                   i < j => CurrencyRank(out[i].currency) <= CurrencyRank(out[j].currency)
            /\ Cardinality(WithCurrency("USD")) = Cardinality(SymbolSites(text, "$"))
            /\ Cardinality(WithCurrency("EUR")) = Cardinality(SymbolSites(text, "€"))
            /\ Cardinality(WithCurrency("GBP")) = Cardinality(SymbolSites(text, "£"))
            /\ \A i \in 1 .. s :
                   \E j \in (s + 1) .. n :
                       /\ out[j].amount = out[i].amount
                       /\ out[j].raw_text = out[i].raw_text
            /\ text = <<"$", "1", ",", "2", "3", "4", ".", "5", "6">> =>
                   /\ n = 2
                   /\ \A i \in 1 .. n :
                          out[i].amount = 123456 /\ out[i].currency = "USD"
            /\ text = <<"a", "b", "c">> => out = <<>>

\* a text with a numeral after a EUR sign: the figure is returned twice, as
\* EUR first and as USD after it
C13_Witness ==
    /\ FiguresExtracted
    /\ Len(fn_return.value) >= 2
    /\ fn_return.value[1].currency = "EUR"
    /\ fn_return.value[Len(fn_return.value)].currency = "USD"
    /\ fn_return.value[Len(fn_return.value)].amount = fn_return.value[1].amount

TablesDetected ==
    fn_call.fn = "detect_table_structure" /\ fn_return.done

\* the maximal runs <<first, last>> of lines of the text that each hold at
\* least 2 figures
RowRuns(lines) ==
    {run \in (DOMAIN lines) \X (DOMAIN lines) :
        /\ run[1] <= run[2]
        /\ \A i \in run[1] .. run[2] : Len(extract_financial_figures(lines[i])) >= 2
        /\ run[1] = 1 \/ Len(extract_financial_figures(lines[run[1] - 1])) < 2
        /\ run[2] = Len(lines) \/ Len(extract_financial_figures(lines[run[2] + 1])) < 2}

LongRuns(lines) == {run \in RowRuns(lines) : run[2] - run[1] + 1 >= 3}

\* C14: detect_table_structure reports exactly the maximal contiguous runs
\* of at least 3 lines in which every line contains at least 2 recognized
\* figures: each such run yields one table whose row_count is the run length
\* (also a run that ends at the last line of the text), and runs of 1 or 2
\* such lines yield no table.  3 consecutive lines each with 2 numerals give
\* exactly one table with row_count 3; only 2 such lines give zero tables.
C14_TablesAreLongRuns ==
    TablesDetected =>
        LET lines == SplitLines(fn_call.arg)
            tables == fn_return.value
            before(run) == Cardinality({r \in LongRuns(lines) : r[1] < run[1]})
        IN  /\ Len(tables) = Cardinality(LongRuns(lines))
            /\ \A run \in LongRuns(lines) :
                   LET table == tables[before(run) + 1]
                   IN  /\ table.row_count = run[2] - run[1] + 1
                       /\ Len(table.rows) = table.row_count
                       /\ \A r \in DOMAIN table.rows :
                              table.rows[r].text = Strip(lines[run[1] + r - 1])
            /\ fn_call.arg = <<"1", " ", "2", "\n", "1", " ", "2", "\n", "1", " ", "2">>
                   => Len(tables) = 1 /\ tables[1].row_count = 3
            /\ fn_call.arg = <<"1", " ", "2", "\n", "1", " ", "2">> => tables = <<>>

\* a text with a run of 2 rows, which gives no table, and a later run of 3
\* or more rows that ends at the last line
C14_Witness ==
    /\ TablesDetected
    /\ \E short \in RowRuns(SplitLines(fn_call.arg)) : short[2] - short[1] + 1 = 2
    /\ \E run \in LongRuns(SplitLines(fn_call.arg)) :
           run[2] = Len(SplitLines(fn_call.arg))
    /\ Len(fn_return.value) = 1

----------------------------------------------------------------------------
(* Properties of _split_into_chunks *)

\* the chunker has returned to parse(), which has not used the chunks yet
SplitReturned ==
    pc \in {"pdf_finish", "csv_finish", "excel_sheet_done", "xml_finish"}

\* C15: _split_into_chunks applied to a text whose length is at most the
\* chunk size (500) returns exactly one chunk, and that chunk equals the
\* input text: its window is the whole text and nothing was stripped from it;
\* the loop is never entered for such a text.
C15_ShortTextIsOneChunk ==
    chunk_input <= 500 =>
        /\ pc # "split_loop"
        /\ SplitReturned =>
               text_chunks = <<[s |-> 0, e |-> chunk_input, n |-> chunk_input]>>

\* a text of exactly 500 characters came back as one chunk
C15_Witness ==
    /\ SplitReturned
    /\ chunk_input = 500
    /\ Len(text_chunks) = 1
    /\ text_chunks[1].n = 500

----------------------------------------------------------------------------
(* Properties of the chunks of a ParsingResult *)

ResultReturned == pc = "returned" /\ outcome = "result"

\* C17: within one ParsingResult the chunk_index values of the chunks are
\* unique and strictly increasing in list order, for every back-end, also
\* for the spreadsheet back-end when the chunks of two or more non-empty
\* sheets are merged.
C17_ChunkIndexIncreasing ==
    ResultReturned =>
        \A i, j \in DOMAIN result.chunks :
            i < j => result.chunks[i].chunk_index < result.chunks[j].chunk_index

\* C18: every DocumentChunk in every ParsingResult has non-empty text, also
\* when the text handed to the chunker is empty (a CSV or sheet whose cleaned
\* table has no rows and no columns) or consists only of whitespace.
C18_ChunkTextNonEmpty ==
    ResultReturned =>
        \A i \in DOMAIN result.chunks : result.chunks[i].len > 0

----------------------------------------------------------------------------
(* Properties of the XBRL facts *)

\* the elements of the document that are balance sheet facts
FoundFacts(root) ==
    SelectSeq(root.facts,
              LAMBDA e : \E k \in DOMAIN balance_sheet_elements :
                            balance_sheet_elements[k].element_names[1].local = e.local)

\* parse() returned for an XBRL document that holds a balance sheet fact,
\* and nothing failed outside the extraction of the facts
XbrlParsed ==
    /\ pc = "returned"
    /\ backend = "xml"
    /\ IsXbrlDocument(xml_root)
    /\ FoundFacts(xml_root) # <<>>
    /\ \A f \in failures : f.at = "xml_extract_facts"

\* C19: when an XBRL document is parsed, a fact whose contextRef matches a
\* parsed context carries that context's entity and period in 'context'
\* (and likewise its unit in 'unit'); a fact whose contextRef matches no
\* context has no 'context' field, and neither case raises an error or makes
\* the parse fail.
C19_FactsCarryContext ==
    XbrlParsed =>
        /\ outcome = "result"
        /\ result.success
        /\ result.errors = <<>>
        /\ LET contexts == ExtractXbrlContexts(xml_root)
               units == ExtractXbrlUnits(xml_root)
               data == result.metadata.balance_sheet_data
           IN  \A section \in DOMAIN data :
               \A i \in DOMAIN data[section] :
                 LET fact == data[section][i]
                 IN  /\ IF fact.context_ref \in DOMAIN contexts
                        THEN /\ fact.context.entity = contexts[fact.context_ref].entity
                             /\ fact.context.period = contexts[fact.context_ref].period
                        ELSE fact.context = NoField
                     /\ IF fact.unit_ref \in DOMAIN units
                        THEN fact.unit = units[fact.unit_ref]
                        ELSE fact.unit = NoField

----------------------------------------------------------------------------
(* Properties of the non-fatal failures *)

\* the steps parse() takes for one sheet: _process_sheet and the merge
SheetSteps == {"excel_sheet", "split", "split_loop", "excel_sheet_done"}

\* a spreadsheet parse of two or more sheets has returned, chunks of an
\* earlier sheet had been merged, and the only failure was raised while a
\* later sheet was processed
SheetFailed ==
    /\ pc = "returned"
    /\ backend = "excel"
    /\ Len(all_sheets) >= 2
    /\ all_chunks # <<>>
    /\ failures # {}
    /\ \A f \in failures : f.at \in SheetSteps

\* C20: a non-fatal sub-failure never aborts the overall parse: in the
\* spreadsheet back-end, when processing one sheet fails, that sheet is
\* skipped and the result still has success=true with the chunks and tables
\* of the other sheets.
C20_SheetFailureIsSkipped ==
    SheetFailed =>
        /\ outcome = "result"
        /\ result.success
        /\ Len(result.chunks) >= Len(all_chunks)
        /\ SubSeq(result.chunks, 1, Len(all_chunks)) = all_chunks
        /\ result.tables >= all_tables

\* every match of every pattern, in the order the patterns are applied
AllMatches(text) ==
    FindAll(currency_patterns[1].symbol, text, 1)
    \o FindAll(currency_patterns[2].symbol, text, 1)
    \o FindAll(currency_patterns[3].symbol, text, 1)
    \o FindAll(currency_patterns[4].symbol, text, 1)

\* the second half of C20, figure extraction: a match without a digit (only
\* commas) cannot be parsed as a decimal and is dropped, and the remaining
\* matches are still returned, in order.
C20_UnparsableMatchDropped ==
    FiguresExtracted =>
        [i \in DOMAIN fn_return.value |-> fn_return.value[i].raw_text]
          = SelectSeq(AllMatches(fn_call.arg),
                      LAMBDA match : \E i \in DOMAIN match : IsDigit(match[i]))

\* a text where one match is dropped and another is returned
C20_DroppedAndKept ==
    /\ FiguresExtracted
    /\ fn_return.value # <<>>
    /\ Len(fn_return.value) < Len(AllMatches(fn_call.arg))

----------------------------------------------------------------------------
(* Properties of the OCR helper's temporary files *)

\* _extract_with_ocr has returned
OcrReturned == \E i \in DOMAIN yielded : yielded[i].src = "ocr"

\* C21: every temporary rasterized page image created during OCR is deleted
\* before _extract_with_ocr returns, on every exit path of the page's
\* processing: normal completion, failure of the OCR call, failure while
\* opening the image, and failure while writing the image data to the
\* temporary file.
C21_TempImagesDeleted ==
    OcrReturned => temp_files = {}

----------------------------------------------------------------------------
(* Properties of two calls on one instance *)

\* what a call returns when it runs alone on a fresh instance
AloneResult(call) ==
    IF call.fn = "extract_financial_figures"
    THEN extract_financial_figures(call.arg)
    ELSE CategorizeBalanceSheetItem(call.arg)

----------------------------------------------------------------------------
(* Properties of can_parse *)

CanParseReturned == fn_call.fn = "can_parse" /\ fn_return.done

\* the extensions each back-end declares
DeclaredExtensions(b) ==
    CASE b = "csv" -> {<<".", "c", "s", "v">>}
      [] b = "excel" -> {<<".", "x", "l", "s", "x">>, <<".", "x", "l", "s">>}
      [] b = "pdf" -> {<<".", "p", "d", "f">>}
      [] b = "xml" -> {<<".", "x", "m", "l">>, <<".", "x", "b", "r", "l">>}

\* the file name is a non-empty stem followed by the extension, in any case
HasExtension(path, ext) ==
    LET name == PathName(path)
    IN  /\ Len(name) > Len(ext)
        /\ Lower(SubSeq(name, Len(name) - Len(ext) + 1, Len(name))) = ext

\* C23: for each back-end, can_parse(path) is true if and only if the
\* lower-cased file extension is in that back-end's declared set (.csv;
\* .xlsx/.xls; .pdf; .xml/.xbrl), whether or not the file exists; the
\* declared sets are pairwise disjoint, so at most one back-end accepts any
\* path.
C23_CanParseByExtension ==
    CanParseReturned =>
        LET call == fn_call.arg
        IN  /\ fn_return.value <=>
                 \E ext \in DeclaredExtensions(call.backend) :
                     HasExtension(call.file_path, ext)
            /\ \A b, c \in Backends :
                 (can_parse(b, call.file_path) /\ can_parse(c, call.file_path))
                     => b = c
            /\ \A b, c \in Backends :
                 b # c => DeclaredExtensions(b) \cap DeclaredExtensions(c) = {}

\* a file that does not exist, with an upper-case extension, is accepted by
\* the XML back-end
C23_Witness ==
    /\ CanParseReturned
    /\ fn_call.arg.backend = "xml"
    /\ ~fn_call.arg.exists
    /\ PathSuffix(fn_call.arg.file_path) = <<".", "X", "B", "R", "L">>
    /\ fn_return.value

----------------------------------------------------------------------------
(* Properties of the chunker's loop *)

\* C24: _split_into_chunks terminates for every input text with the default
\* chunk size 500 and overlap 100, in particular for every text longer than
\* the chunk size: the window start position strictly advances on each
\* iteration until the loop exits.
C24_StartAdvances ==
    [][(pc = "split_loop" /\ pc' = "split_loop") => start' > start]_vars

----------------------------------------------------------------------------
(* Properties of the section-label signal *)

\* the score of the other three signals
ScoreWithoutSections ==
    TermScore * KeywordHits
    + (IF structure_analysis.time_series THEN DateColumnsScore ELSE 0)
    + (IF structure_analysis.structure_type = "balance_sheet" THEN LineItemsScore ELSE 0)

\* C25: in the CSV structure analysis the section-label signal (+25) is
\* awarded if and only if at least 2 distinct labels among {assets,
\* liabilities, equity} are identified in the first column; several rows
\* that all map to the same section label (e.g. 'Current assets' and 'Total
\* assets') do not earn it.
C25_DistinctSectionLabels ==
    TableAnalysed =>
        structure_analysis.confidence_score =
            ScoreWithoutSections
            + (IF Cardinality(structure_analysis.identified_sections) >= 2
               THEN 25 ELSE 0)

----------------------------------------------------------------------------
(* Properties of the is_financial flag *)

TableExtracted == table_pc \in {"extracted", "analysed"} /\ table_data.present

HeaderHasKeyword(t) ==
    \E c \in DOMAIN t.columns :
        ContainsAny(Lower(t.columns[c]), financial_header_terms)

FirstColumnHasKeyword(t) ==
    \E r \in DOMAIN t.rows :
        ContainsAny(Lower(t.rows[r][1]), financial_item_terms)

\* some cell outside the first column holds a number above 1000
HasCellAbove1000(t) ==
    \E r \in DOMAIN t.rows :
        \E c \in 2 .. Len(t.rows[r]) :
            LET figures == extract_financial_figures(t.rows[r][c])
            IN  \E f \in DOMAIN figures : figures[f].amount > 100 * 1000

\* C26: a table is flagged is_financial if and only if its header or
\* first-column labels contain a financial keyword OR some numeric cell
\* exceeds 1000: a table whose first column contains a financial keyword but
\* whose numbers are all at most 1000 is flagged financial, and a table with
\* a cell above 1000 but no keyword anywhere is flagged financial.
C26_KeywordOrLargeNumber ==
    TableExtracted =>
        (table_data.is_financial <=>
            \/ HeaderHasKeyword(df_cleaned)
            \/ FirstColumnHasKeyword(df_cleaned)
            \/ HasCellAbove1000(df_cleaned))

----------------------------------------------------------------------------
(* Properties of the XBRL buckets *)

CategoryFactsExtracted ==
    fn_call.fn = "_extract_balance_sheet_facts" /\ fn_return.done

\* the bucket of each logical concept name of the catalog, in catalog order
ConceptBuckets ==
    << "assets", "assets", "assets", "assets", "assets", "assets",
       "liabilities", "liabilities", "liabilities", "liabilities",
       "equity", "equity" >>

\* the elements of the document found under the concept's unprefixed name
ConceptElements(root, k) ==
    SelectSeq(root.facts,
              LAMBDA e : e.local = balance_sheet_elements[k].element_names[1].local)

----------------------------------------------------------------------------
(* Properties of the three classifiers *)

OtherClassifierReturned ==
    /\ fn_call.fn \in {"ExcelParser._categorize_balance_sheet_item",
                       "PDFParser._categorize_line_item"}
    /\ fn_return.done

\* C28: the category classifier is shared: for every line-item label, the
\* CSV back-end's classifier, the spreadsheet back-end's classifier and the
\* PDF back-end's classifier return the same category (same specific-pattern
\* result and same coarse keyword fallback, e.g. for labels containing
\* 'investment' or 'accrued').
C28_ClassifiersAgree ==
    OtherClassifierReturned =>
        fn_return.value = CategorizeBalanceSheetItem(fn_call.arg)

----------------------------------------------------------------------------
(* Properties of the scale hint *)

\* a returned result whose metadata carries 'scale': the PDF, CSV and XML
\* back-ends (the spreadsheet back-end's metadata has no such key)
ScaleReported ==
    /\ Returned
    /\ outcome = "result"
    /\ result.success
    /\ backend \in {"pdf", "csv", "xml"}

\* C29: the scale hint is one of units, thousands, millions, billions and is
\* derived once per document: every reported scale, the metadata's 'scale' and
\* the 'scale' of each table's financial_data, equals the scale detected from
\* the document's text, so a document detected as 'millions' never carries a
\* table payload marked 'units'.
C29_TableScaleIsDocumentScale ==
    ScaleReported =>
        /\ result.metadata.scale \in {"units", "thousands", "millions", "billions"}
        /\ \A i \in DOMAIN result.table_scales :
              result.table_scales[i] = result.metadata.scale

----------------------------------------------------------------------------
(* Properties of the BalanceSheet model *)

BalanceSheetConstructed ==
    /\ fn_call.fn = "BalanceSheet"
    /\ fn_return.done

====
